---------------------------- MODULE Spec2Model ----------------------------
(***************************************************************************)
(* A model of the canvas engine of InteractiveCardsComponent               *)
(* (src/src/app/interactive-cards/interactive-cards.component.ts): the     *)
(* cards, connectors, selection, clipboard and zoom state, and one action  *)
(* per event handler of the component.                                     *)
(*                                                                         *)
(* Numbers.  The component computes with JavaScript numbers.  The model    *)
(* computes with exact rationals <<n, d>> (d > 0, lowest terms), so a      *)
(* product such as 200 * 1.1 is exactly 220: binary rounding noise of the  *)
(* order of 1e-13 is abstracted away ("within floating-point tolerance").  *)
(*                                                                         *)
(* Identity.  A Card object is identified by its id, which the component   *)
(* never reuses; connectors, the selection, connectingFrom and the         *)
(* gestures' closures hold ids where the component holds references.       *)
(***************************************************************************)
EXTENDS Integers, Sequences, FiniteSets, TLC

(***************************************************************************)
(* Bounds of the model (not program constants).                            *)
(***************************************************************************)
\* addNewCard and pasteCards are taken only while cardCount stays <= this.
MaxCardCount == 4
\* zoom is taken with cards on the canvas only while the scale stays within
\* this many net 0.9/1.1 steps of 1 (the exact coordinates grow with every step).
MaxZoomDepth == 1
\* zoom requests with other multipliers are taken while the accepted scale
\* keeps a denominator of at most this
MaxScaleDenominator == 20
\* a second press is taken while fewer than this many gestures are registered
MaxGestures == 2
\* on an empty canvas, zoom is taken while at most this many steps were accepted.
MaxZoomSteps == 7

(***************************************************************************)
(* Exact rational arithmetic, standing for JavaScript number arithmetic.   *)
(***************************************************************************)
RECURSIVE GCD(_, _)
GCD(a, b) == IF b = 0 THEN a ELSE GCD(b, a % b)

Abs(i) == IF i < 0 THEN -i ELSE i

Norm(n, d) ==
    LET s == IF d < 0 THEN -1 ELSE 1
        g == GCD(Abs(n), Abs(d))
    IN  <<(s * n) \div g, (s * d) \div g>>

R(i) == <<i, 1>>

RMul(a, b) ==
    LET g1 == GCD(Abs(a[1]), b[2])
        g2 == GCD(Abs(b[1]), a[2])
    IN  <<(a[1] \div g1) * (b[1] \div g2), (a[2] \div g2) * (b[2] \div g1)>>

RInv(a) == IF a[1] < 0 THEN <<-a[2], -a[1]>> ELSE <<a[2], a[1]>>

RDiv(a, b) == RMul(a, RInv(b))

RAdd(a, b) ==
    LET g == GCD(a[2], b[2])
    IN  Norm(a[1] * (b[2] \div g) + b[1] * (a[2] \div g), (a[2] \div g) * b[2])

RNeg(a) == <<-a[1], a[2]>>

RSub(a, b) == RAdd(a, RNeg(b))

RLt(a, b) ==
    LET g == GCD(a[2], b[2])
    IN  a[1] * (b[2] \div g) < b[1] * (a[2] \div g)

RLe(a, b) == ~RLt(b, a)

RAbs(a) == <<Abs(a[1]), a[2]>>

RMax(a, b) == IF RLt(a, b) THEN b ELSE a

RMin(a, b) == IF RLt(b, a) THEN b ELSE a

\* Math.round: the nearest integer, a tie going up.
MathRound(a) == (2 * a[1] + a[2]) \div (2 * a[2])

\* whether a is an integer multiple of the positive unit u
IsMultiple(a, u) == RDiv(a, u)[2] = 1

(***************************************************************************)
(* The component's state.                                                  *)
(***************************************************************************)
VARIABLES
    scale,          \* this.scale
    gridSpacing,    \* this.gridSpacing
    cardCount,      \* this.cardCount
    cards,          \* this.cards: sequence of Card records
    connectors,     \* this.connectors: sequence of [from, to] (card ids)
    connectingFrom, \* this.connectingFrom: a card id or Null
    selectedCards,  \* this.selectedCards: sequence of card ids
    clipboard,      \* this.clipboard: sequence of clipboard entries
    isSelecting,    \* this.isSelecting
    startX,         \* this.startX
    startY,         \* this.startY
    selectionRect,  \* this.selectionRect
    gestures        \* the drag/resize closures registered on document

vars == <<scale, gridSpacing, cardCount, cards, connectors, connectingFrom,
          selectedCards, clipboard, isSelecting, startX, startY,
          selectionRect, gestures>>

\* null where a Card reference is expected
Null == <<"null", 0>>

\* null where getResizeDirection returns no direction
NoDirection == "null"

\* ids are `card${n}`, default titles `Card ${n}`
CardId(n) == <<"card", n>>
CardTitle(n) == <<"Card ", n>>

borderWidth == 10

Range(s) == {s[i] : i \in 1..Len(s)}

\* index of the card with this id in a card list, 0 when it is not in it
IndexOf(cs, id) ==
    IF \E i \in 1..Len(cs) : cs[i].id = id
    THEN CHOOSE i \in 1..Len(cs) : cs[i].id = id
    ELSE 0

CardIds(cs) == {cs[i].id : i \in 1..Len(cs)}

(***************************************************************************)
(* snapToGrid, with the grid spacing and scale it reads passed explicitly. *)
(***************************************************************************)
\* mutant of snapToGrid: the multiple of the grid unit below the value
snapToGridDown(value, g, s) ==
    LET unit == RMul(R(g), s)
        q == RDiv(value, unit)
    IN  RMul(R(q[1] \div q[2]), unit)

snapToGrid(value, g, s) ==
    LET unit == RMul(R(g), s)
    IN  RMul(R(MathRound(RDiv(value, unit))), unit)

(***************************************************************************)
(* preventOverlap: one pass over the card list cs in list order.           *)
(***************************************************************************)
\* mutant of preventOverlapLoop: each card is tested against the rectangle at
\* the position adjusted so far
RECURSIVE preventOverlapLoopAdjusting(_, _, _, _, _, _, _, _, _)
preventOverlapLoopAdjusting(cs, i, moving, sel, g, s, movingRect, adjustedX, adjustedY) ==
    IF i > Len(cs) THEN <<adjustedX, adjustedY>>
    ELSE
      LET otherCard == cs[i]
      IN
      IF otherCard.id = moving.id \/ otherCard.id \in sel
      THEN preventOverlapLoopAdjusting(cs, i + 1, moving, sel, g, s, movingRect,
                                       adjustedX, adjustedY)
      ELSE
        LET otherRect ==
              [left   |-> RMul(otherCard.baseX, s),
               top    |-> RMul(otherCard.baseY, s),
               right  |-> RMul(RAdd(otherCard.baseX, otherCard.baseWidth), s),
               bottom |-> RMul(RAdd(otherCard.baseY, otherCard.baseHeight), s)]
            hit ==
              /\ RLt(movingRect.left, otherRect.right)
              /\ RLt(otherRect.left, movingRect.right)
              /\ RLt(movingRect.top, otherRect.bottom)
              /\ RLt(otherRect.top, movingRect.bottom)
            dxLeft   == RAbs(RSub(otherRect.right, movingRect.left))
            dxRight  == RAbs(RSub(movingRect.right, otherRect.left))
            dyTop    == RAbs(RSub(otherRect.bottom, movingRect.top))
            dyBottom == RAbs(RSub(movingRect.bottom, otherRect.top))
            minDisplacement == RMin(RMin(dxLeft, dxRight), RMin(dyTop, dyBottom))
            step == RMul(R(g), s)
            nx == IF minDisplacement = dxLeft
                  THEN RAdd(RDiv(otherRect.right, s), step)
                  ELSE IF minDisplacement = dxRight
                  THEN RSub(RDiv(RSub(otherRect.left, moving.baseWidth), s), step)
                  ELSE adjustedX
            ny == IF minDisplacement = dxLeft \/ minDisplacement = dxRight
                  THEN adjustedY
                  ELSE IF minDisplacement = dyTop
                  THEN RAdd(RDiv(otherRect.bottom, s), step)
                  ELSE RSub(RDiv(RSub(otherRect.top, moving.baseHeight), s), step)
            movedRect ==
              [left   |-> RMul(nx, s),
               top    |-> RMul(ny, s),
               right  |-> RMul(RAdd(nx, moving.baseWidth), s),
               bottom |-> RMul(RAdd(ny, moving.baseHeight), s)]
        IN
        IF hit
        THEN preventOverlapLoopAdjusting(cs, i + 1, moving, sel, g, s, movedRect, nx, ny)
        ELSE preventOverlapLoopAdjusting(cs, i + 1, moving, sel, g, s, movingRect,
                                         adjustedX, adjustedY)

\* mutant of preventOverlapLoop: an overlapping card corrects both axes, each
\* to its nearer side
RECURSIVE preventOverlapLoopBothAxes(_, _, _, _, _, _, _, _, _)
preventOverlapLoopBothAxes(cs, i, moving, sel, g, s, movingRect, adjustedX, adjustedY) ==
    IF i > Len(cs) THEN <<adjustedX, adjustedY>>
    ELSE
      LET otherCard == cs[i]
      IN
      IF otherCard.id = moving.id \/ otherCard.id \in sel
      THEN preventOverlapLoopBothAxes(cs, i + 1, moving, sel, g, s, movingRect,
                                      adjustedX, adjustedY)
      ELSE
        LET otherRect ==
              [left   |-> RMul(otherCard.baseX, s),
               top    |-> RMul(otherCard.baseY, s),
               right  |-> RMul(RAdd(otherCard.baseX, otherCard.baseWidth), s),
               bottom |-> RMul(RAdd(otherCard.baseY, otherCard.baseHeight), s)]
            hit ==
              /\ RLt(movingRect.left, otherRect.right)
              /\ RLt(otherRect.left, movingRect.right)
              /\ RLt(movingRect.top, otherRect.bottom)
              /\ RLt(otherRect.top, movingRect.bottom)
            dxLeft   == RAbs(RSub(otherRect.right, movingRect.left))
            dxRight  == RAbs(RSub(movingRect.right, otherRect.left))
            dyTop    == RAbs(RSub(otherRect.bottom, movingRect.top))
            dyBottom == RAbs(RSub(movingRect.bottom, otherRect.top))
            step == RMul(R(g), s)
            nx == IF RLe(dxLeft, dxRight)
                  THEN RAdd(RDiv(otherRect.right, s), step)
                  ELSE RSub(RDiv(RSub(otherRect.left, moving.baseWidth), s), step)
            ny == IF RLe(dyTop, dyBottom)
                  THEN RAdd(RDiv(otherRect.bottom, s), step)
                  ELSE RSub(RDiv(RSub(otherRect.top, moving.baseHeight), s), step)
        IN
        IF hit
        THEN preventOverlapLoopBothAxes(cs, i + 1, moving, sel, g, s, movingRect, nx, ny)
        ELSE preventOverlapLoopBothAxes(cs, i + 1, moving, sel, g, s, movingRect,
                                        adjustedX, adjustedY)

\* mutant of preventOverlapLoop: selected cards are obstacles too
RECURSIVE preventOverlapLoopSelectedToo(_, _, _, _, _, _, _, _, _)
preventOverlapLoopSelectedToo(cs, i, moving, sel, g, s, movingRect, adjustedX, adjustedY) ==
    IF i > Len(cs) THEN <<adjustedX, adjustedY>>
    ELSE
      LET otherCard == cs[i]
      IN
      IF otherCard.id = moving.id
      THEN preventOverlapLoopSelectedToo(cs, i + 1, moving, sel, g, s, movingRect,
                                         adjustedX, adjustedY)
      ELSE
        LET otherRect ==
              [left   |-> RMul(otherCard.baseX, s),
               top    |-> RMul(otherCard.baseY, s),
               right  |-> RMul(RAdd(otherCard.baseX, otherCard.baseWidth), s),
               bottom |-> RMul(RAdd(otherCard.baseY, otherCard.baseHeight), s)]
            hit ==
              /\ RLt(movingRect.left, otherRect.right)
              /\ RLt(otherRect.left, movingRect.right)
              /\ RLt(movingRect.top, otherRect.bottom)
              /\ RLt(otherRect.top, movingRect.bottom)
            dxLeft   == RAbs(RSub(otherRect.right, movingRect.left))
            dxRight  == RAbs(RSub(movingRect.right, otherRect.left))
            dyTop    == RAbs(RSub(otherRect.bottom, movingRect.top))
            dyBottom == RAbs(RSub(movingRect.bottom, otherRect.top))
            minDisplacement == RMin(RMin(dxLeft, dxRight), RMin(dyTop, dyBottom))
            step == RMul(R(g), s)
            nx == IF minDisplacement = dxLeft
                  THEN RAdd(RDiv(otherRect.right, s), step)
                  ELSE IF minDisplacement = dxRight
                  THEN RSub(RDiv(RSub(otherRect.left, moving.baseWidth), s), step)
                  ELSE adjustedX
            ny == IF minDisplacement = dxLeft \/ minDisplacement = dxRight
                  THEN adjustedY
                  ELSE IF minDisplacement = dyTop
                  THEN RAdd(RDiv(otherRect.bottom, s), step)
                  ELSE RSub(RDiv(RSub(otherRect.top, moving.baseHeight), s), step)
        IN
        IF hit
        THEN preventOverlapLoopSelectedToo(cs, i + 1, moving, sel, g, s, movingRect, nx, ny)
        ELSE preventOverlapLoopSelectedToo(cs, i + 1, moving, sel, g, s, movingRect,
                                           adjustedX, adjustedY)

RECURSIVE preventOverlapLoop(_, _, _, _, _, _, _, _, _)
preventOverlapLoop(cs, i, moving, sel, g, s, movingRect, adjustedX, adjustedY) ==
    IF i > Len(cs) THEN <<adjustedX, adjustedY>>
    ELSE
      LET otherCard == cs[i]
      IN
      IF otherCard.id = moving.id \/ otherCard.id \in sel
      THEN preventOverlapLoop(cs, i + 1, moving, sel, g, s, movingRect, adjustedX, adjustedY)
      ELSE
        LET otherRect ==
              [left   |-> RMul(otherCard.baseX, s),
               top    |-> RMul(otherCard.baseY, s),
               right  |-> RMul(RAdd(otherCard.baseX, otherCard.baseWidth), s),
               bottom |-> RMul(RAdd(otherCard.baseY, otherCard.baseHeight), s)]
            hit ==
              /\ RLt(movingRect.left, otherRect.right)
              /\ RLt(otherRect.left, movingRect.right)
              /\ RLt(movingRect.top, otherRect.bottom)
              /\ RLt(otherRect.top, movingRect.bottom)
            dxLeft   == RAbs(RSub(otherRect.right, movingRect.left))
            dxRight  == RAbs(RSub(movingRect.right, otherRect.left))
            dyTop    == RAbs(RSub(otherRect.bottom, movingRect.top))
            dyBottom == RAbs(RSub(movingRect.bottom, otherRect.top))
            minDisplacement == RMin(RMin(dxLeft, dxRight), RMin(dyTop, dyBottom))
            step == RMul(R(g), s)
            nx == IF minDisplacement = dxLeft
                  THEN RAdd(RDiv(otherRect.right, s), step)
                  ELSE IF minDisplacement = dxRight
                  THEN RSub(RDiv(RSub(otherRect.left, moving.baseWidth), s), step)
                  ELSE adjustedX
            ny == IF minDisplacement = dxLeft \/ minDisplacement = dxRight
                  THEN adjustedY
                  ELSE IF minDisplacement = dyTop
                  THEN RAdd(RDiv(otherRect.bottom, s), step)
                  ELSE RSub(RDiv(RSub(otherRect.top, moving.baseHeight), s), step)
        IN
        IF hit
        THEN preventOverlapLoop(cs, i + 1, moving, sel, g, s, movingRect, nx, ny)
        ELSE preventOverlapLoop(cs, i + 1, moving, sel, g, s, movingRect, adjustedX, adjustedY)

\* Returns <<x, y>>.  cs, sel, g, s are this.cards, the ids in
\* this.selectedCards, this.gridSpacing and this.scale.
preventOverlap(cs, sel, g, s, movingCard, proposedX, proposedY) ==
    LET movingRect ==
          [left   |-> RMul(proposedX, s),
           top    |-> RMul(proposedY, s),
           right  |-> RMul(RAdd(proposedX, movingCard.baseWidth), s),
           bottom |-> RMul(RAdd(proposedY, movingCard.baseHeight), s)]
        adj == preventOverlapLoop(cs, 1, movingCard, sel, g, s, movingRect,
                                  proposedX, proposedY)
    IN  <<snapToGrid(adj[1], g, s), snapToGrid(adj[2], g, s)>>


(***************************************************************************)
(* Bounds on how deep the exact arithmetic is taken.                       *)
(***************************************************************************)
RECURSIVE Log10(_)
Log10(d) == IF d <= 1 THEN 0 ELSE 1 + Log10(d \div 10)

\* the number of accepted 0.9/1.1 zoom steps that led to scale s
ZoomSteps(s) == Log10(s[2])

GeometryInBounds == ZoomSteps(scale) <= MaxZoomDepth

(***************************************************************************)
(* ngAfterViewInit: the state once the component is up.                    *)
(***************************************************************************)
NewCard(n, x, y, g, s) ==
    [id |-> CardId(n), title |-> CardTitle(n), inputValue |-> "",
     baseX |-> snapToGrid(x, g, s), baseY |-> snapToGrid(y, g, s),
     baseWidth |-> R(200), baseHeight |-> R(100)]

Init ==
    /\ scale = R(1)
    /\ gridSpacing = 50
    /\ cardCount = 2
    /\ cards = <<NewCard(1, R(100), R(100), 50, R(1)),
                 NewCard(2, R(400), R(200), 50, R(1))>>
    /\ connectors = <<>>
    /\ connectingFrom = Null
    /\ selectedCards = <<>>
    /\ clipboard = <<>>
    /\ isSelecting = FALSE
    /\ startX = R(0)
    /\ startY = R(0)
    /\ selectionRect = [left |-> R(0), top |-> R(0), width |-> R(0), height |-> R(0)]
    /\ gestures = <<>>

(***************************************************************************)
(* addNewCard() with the default position (the sidebar button).            *)
(***************************************************************************)
\* mutant of addNewCard: the id is numbered by the length of the card list
addNewCardByLength ==
    LET d == RAdd(RDiv(R(100), scale), RDiv(R(cardCount * 50), scale))
    IN  /\ cardCount' = Len(cards) + 1
        /\ cards' = Append(cards, NewCard(Len(cards) + 1, d, d, gridSpacing, scale))
        /\ UNCHANGED <<scale, gridSpacing, connectors, connectingFrom, selectedCards,
                       clipboard, isSelecting, startX, startY, selectionRect, gestures>>

addNewCard ==
    LET d == RAdd(RDiv(R(100), scale), RDiv(R(cardCount * 50), scale))
    IN  /\ cardCount' = cardCount + 1
        /\ cards' = Append(cards, NewCard(cardCount + 1, d, d, gridSpacing, scale))
        /\ UNCHANGED <<scale, gridSpacing, connectors, connectingFrom, selectedCards,
                       clipboard, isSelecting, startX, startY, selectionRect, gestures>>

(***************************************************************************)
(* setGridSpacing(size) and adjustCardsAfterGridChange.                    *)
(***************************************************************************)
\* mutant of clampGrid: sizes above 200 are taken as they are
clampGridLowerOnly(size) ==
    IF size < 10 THEN 10 ELSE size

clampGrid(size) ==
    IF size > 200 THEN 200 ELSE IF size < 10 THEN 10 ELSE size

adjustCardsAfterGridChange(cs, g, s) ==
    [i \in 1..Len(cs) |->
        [cs[i] EXCEPT !.baseX = snapToGrid(@, g, s),
                      !.baseY = snapToGrid(@, g, s),
                      !.baseWidth = snapToGrid(@, g, s),
                      !.baseHeight = snapToGrid(@, g, s)]]

setGridSpacing(size) ==
    /\ gridSpacing' = clampGrid(size)
    /\ cards' = adjustCardsAfterGridChange(cards, clampGrid(size), scale)
    /\ UNCHANGED <<scale, cardCount, connectors, connectingFrom, selectedCards,
                   clipboard, isSelecting, startX, startY, selectionRect, gestures>>

(***************************************************************************)
(* zoom(delta) and preventOverlapsAfterZoom.                               *)
(***************************************************************************)
RECURSIVE preventOverlapsAfterZoomLoop(_, _, _, _, _)
preventOverlapsAfterZoomLoop(cs, i, sel, g, s) ==
    IF i > Len(cs) THEN cs
    ELSE
      LET card == cs[i]
          adjustedPosition == preventOverlap(cs, sel, g, s, card, card.baseX, card.baseY)
      IN  preventOverlapsAfterZoomLoop(
              [cs EXCEPT ![i] = [card EXCEPT !.baseX = adjustedPosition[1],
                                             !.baseY = adjustedPosition[2]]],
              i + 1, sel, g, s)

\* mutant of preventOverlapsAfterZoom: every card is resolved against the
\* rescaled positions of the others, whatever was adjusted before it
preventOverlapsAfterZoomUnadjusted(cs, sel, g, s) ==
    [i \in 1..Len(cs) |->
        LET adjustedPosition == preventOverlap(cs, sel, g, s, cs[i],
                                               cs[i].baseX, cs[i].baseY)
        IN  [cs[i] EXCEPT !.baseX = adjustedPosition[1],
                          !.baseY = adjustedPosition[2]]]

preventOverlapsAfterZoom(cs, sel, g, s) ==
    preventOverlapsAfterZoomLoop(cs, 1, sel, g, s)

scaleCards(cs, delta) ==
    [i \in 1..Len(cs) |->
        [cs[i] EXCEPT !.baseX = RMul(@, delta),
                      !.baseY = RMul(@, delta),
                      !.baseWidth = RMul(@, delta),
                      !.baseHeight = RMul(@, delta)]]

\* mutant of scaleAccepted: the lower limit is not tested
scaleAcceptedNoLower(newScale) == RLe(newScale, R(2))

\* mutant of scaleAccepted: the upper limit is not tested
scaleAcceptedNoUpper(newScale) == RLe(<<1, 2>>, newScale)

\* newScale >= 0.5 && newScale <= 2
scaleAccepted(newScale) == RLe(<<1, 2>>, newScale) /\ RLe(newScale, R(2))

zoom(delta) ==
    LET newScale == RMul(scale, delta)
    IN  IF scaleAccepted(newScale)
        THEN /\ scale' = newScale
             /\ cards' = preventOverlapsAfterZoom(scaleCards(cards, delta),
                                                  Range(selectedCards), gridSpacing, newScale)
             /\ UNCHANGED <<gridSpacing, cardCount, connectors, connectingFrom,
                            selectedCards, clipboard, isSelecting, startX, startY,
                            selectionRect, gestures>>
        ELSE UNCHANGED vars


(***************************************************************************)
(* selectCard and clearSelection, as functions of the selection (a         *)
(* sequence of ids) and connectingFrom.                                    *)
(***************************************************************************)
\* mutant of selectCard: nothing is selected while a connection is pending
selectCardUnlessPending(sel, cf, id) ==
    IF cf = Null
    THEN (IF id \in Range(sel) THEN sel ELSE Append(sel, id))
    ELSE sel

\* mutant of selectCard: the card is pushed without looking for it first
selectCardPushing(sel, cf, id) ==
    IF cf = Null \/ cf # id
    THEN Append(sel, id)
    ELSE sel

selectCard(sel, cf, id) ==
    IF cf = Null \/ cf # id
    THEN (IF id \in Range(sel) THEN sel ELSE Append(sel, id))
    ELSE sel

\* mutant of clearSelection: the pending connectingFrom card is dropped too
clearSelectionAll(sel, cf) == <<>>

\* mutant of clearSelection: the connectingFrom card is what remains, whether
\* it was selected or not
clearSelectionToPending(sel, cf) == IF cf = Null THEN <<>> ELSE <<cf>>

clearSelection(sel, cf) == SelectSeq(sel, LAMBDA id : cf = id)

\* selectedCards.filter((c) => c !== card)
without(sel, id) == SelectSeq(sel, LAMBDA c : c # id)

(***************************************************************************)
(* onCardClick(event, card): the connect-toggle.                           *)
(***************************************************************************)
findConnectorIndex(cons, a, b) ==
    LET hits == {k \in 1..Len(cons) :
                    \/ cons[k].from = a /\ cons[k].to = b
                    \/ cons[k].from = b /\ cons[k].to = a}
    IN  IF hits = {} THEN -1 ELSE CHOOSE k \in hits : \A j \in hits : k <= j

\* connectors.splice(index, 1)
splice(cons, index) ==
    [k \in 1..(Len(cons) - 1) |-> IF k < index THEN cons[k] ELSE cons[k + 1]]

toggleConnector(cons, a, b) ==
    LET existingConnectorIndex == findConnectorIndex(cons, a, b)
    IN  IF existingConnectorIndex # -1
        THEN splice(cons, existingConnectorIndex)
        ELSE Append(cons, [from |-> a, to |-> b])

\* mutant of onCardClick: a second alt-click on the pending card is not a cancel
onCardClickNoCancel(id, altKey, onInput) ==
    IF altKey /\ ~onInput
    THEN /\ IF connectingFrom = Null
            THEN connectingFrom' = id /\ connectors' = connectors
            ELSE /\ connectors' = toggleConnector(connectors, connectingFrom, id)
                 /\ connectingFrom' = Null
         /\ UNCHANGED <<scale, gridSpacing, cardCount, cards, selectedCards, clipboard,
                        isSelecting, startX, startY, selectionRect, gestures>>
    ELSE UNCHANGED vars

\* mutant of onCardClick: the first alt-click also selects the card
onCardClickSelecting(id, altKey, onInput) ==
    IF altKey /\ ~onInput
    THEN /\ IF connectingFrom = Null
            THEN /\ connectingFrom' = id
                 /\ connectors' = connectors
                 /\ selectedCards' = IF id \in Range(selectedCards)
                                     THEN selectedCards
                                     ELSE Append(selectedCards, id)
            ELSE IF connectingFrom = id
            THEN /\ connectingFrom' = Null
                 /\ connectors' = connectors
                 /\ selectedCards' = selectedCards
            ELSE /\ connectors' = toggleConnector(connectors, connectingFrom, id)
                 /\ connectingFrom' = Null
                 /\ selectedCards' = selectedCards
         /\ UNCHANGED <<scale, gridSpacing, cardCount, cards, clipboard,
                        isSelecting, startX, startY, selectionRect, gestures>>
    ELSE UNCHANGED vars

onCardClick(id, altKey, onInput) ==
    IF altKey /\ ~onInput
    THEN /\ IF connectingFrom = Null
            THEN connectingFrom' = id /\ connectors' = connectors
            ELSE IF connectingFrom = id
            THEN connectingFrom' = Null /\ connectors' = connectors
            ELSE /\ connectors' = toggleConnector(connectors, connectingFrom, id)
                 /\ connectingFrom' = Null
         /\ UNCHANGED <<scale, gridSpacing, cardCount, cards, selectedCards, clipboard,
                        isSelecting, startX, startY, selectionRect, gestures>>
    ELSE UNCHANGED vars

(***************************************************************************)
(* copyCards.                                                              *)
(***************************************************************************)
clipboardEntry(cs, cons, s, id) ==
    LET card == cs[IndexOf(cs, id)]
        touching == SelectSeq(cons, LAMBDA c : c.from = id \/ c.to = id)
    IN  [baseX |-> RDiv(card.baseX, s),
         baseY |-> RDiv(card.baseY, s),
         baseWidth |-> RDiv(card.baseWidth, s),
         baseHeight |-> RDiv(card.baseHeight, s),
         title |-> card.title,
         inputValue |-> card.inputValue,
         connections |-> [k \in 1..Len(touching) |->
                             [fromId |-> touching[k].from, toId |-> touching[k].to]]]

\* mutant of copyCards: an empty selection is copied too
copyCardsAlways ==
    /\ clipboard' = [k \in 1..Len(selectedCards) |->
                        clipboardEntry(cards, connectors, scale, selectedCards[k])]
    /\ UNCHANGED <<scale, gridSpacing, cardCount, cards, connectors, connectingFrom,
                   selectedCards, isSelecting, startX, startY, selectionRect, gestures>>

\* mutant of copyCards: a cut, the connectors of the copied cards are removed
copyCardsCutting ==
    IF Len(selectedCards) = 0
    THEN UNCHANGED vars
    ELSE /\ clipboard' = [k \in 1..Len(selectedCards) |->
                             clipboardEntry(cards, connectors, scale, selectedCards[k])]
         /\ connectors' = SelectSeq(connectors,
                                    LAMBDA conn : /\ conn.from \notin Range(selectedCards)
                                                  /\ conn.to \notin Range(selectedCards))
         /\ UNCHANGED <<scale, gridSpacing, cardCount, cards, connectingFrom,
                        selectedCards, isSelecting, startX, startY, selectionRect, gestures>>

copyCards ==
    IF Len(selectedCards) = 0
    THEN UNCHANGED vars
    ELSE /\ clipboard' = [k \in 1..Len(selectedCards) |->
                             clipboardEntry(cards, connectors, scale, selectedCards[k])]
         /\ UNCHANGED <<scale, gridSpacing, cardCount, cards, connectors, connectingFrom,
                        selectedCards, isSelecting, startX, startY, selectionRect, gestures>>

(***************************************************************************)
(* pasteCards and preventOverlapsAfterPaste.                               *)
(***************************************************************************)
\* mutant of pastedCard: the copy starts with an empty text
pastedCardBlank(item, n, s) ==
    [id |-> CardId(n), title |-> item.title, inputValue |-> "",
     baseX |-> RMul(RAdd(item.baseX, RDiv(R(20), s)), s),
     baseY |-> RMul(RAdd(item.baseY, RDiv(R(20), s)), s),
     baseWidth |-> RMul(item.baseWidth, s),
     baseHeight |-> RMul(item.baseHeight, s)]

\* the card built from clipboard entry item when it gets number n
pastedCard(item, n, s) ==
    LET offsetX == RDiv(R(20), s)
        offsetY == RDiv(R(20), s)
    IN  [id |-> CardId(n), title |-> item.title, inputValue |-> item.inputValue,
         baseX |-> RMul(RAdd(item.baseX, offsetX), s),
         baseY |-> RMul(RAdd(item.baseY, offsetY), s),
         baseWidth |-> RMul(item.baseWidth, s),
         baseHeight |-> RMul(item.baseHeight, s)]

pastedCards(clip, count, s) ==
    [k \in 1..Len(clip) |-> pastedCard(clip[k], count + k, s)]

\* newCardsMap after the first loop: title -> id of the last card set under it
newCardsMap(clip, count) ==
    [t \in {clip[k].title : k \in 1..Len(clip)} |->
        LET last == CHOOSE k \in 1..Len(clip) :
                       /\ clip[k].title = t
                       /\ \A j \in 1..Len(clip) : clip[j].title = t => j <= k
        IN  CardId(count + last)]

\* id.replace('card', 'Card ')
replaceCardPrefix(id) == IF id[1] = "card" THEN <<"Card ", id[2]>> ELSE id

\* newCardsMap.get(key): Null stands for undefined
mapGet(m, key) == IF key \in DOMAIN m THEN m[key] ELSE Null

\* mutant of pastedConnector: the connection is wired to the cards it was copied from
pastedConnectorToOriginals(m, conn) ==
    <<[from |-> conn.fromId, to |-> conn.toId]>>

\* the connectors pushed for one connection of one clipboard entry
pastedConnector(m, conn) ==
    LET fromCard == mapGet(m, replaceCardPrefix(conn.fromId))
        toCard == mapGet(m, replaceCardPrefix(conn.toId))
    IN  IF fromCard # Null /\ toCard # Null /\ fromCard # toCard
        THEN <<[from |-> fromCard, to |-> toCard]>>
        ELSE <<>>

RECURSIVE pastedConnectorsOf(_, _, _)
pastedConnectorsOf(m, conns, k) ==
    IF k > Len(conns) THEN <<>>
    ELSE pastedConnector(m, conns[k]) \o pastedConnectorsOf(m, conns, k + 1)

RECURSIVE pastedConnectors(_, _, _)
pastedConnectors(m, clip, k) ==
    IF k > Len(clip) THEN <<>>
    ELSE pastedConnectorsOf(m, clip[k].connections, 1) \o pastedConnectors(m, clip, k + 1)

RECURSIVE preventOverlapsAfterPasteLoop(_, _, _, _, _)
preventOverlapsAfterPasteLoop(cs, i, sel, g, s) ==
    IF i > Len(cs) THEN cs
    ELSE
      LET card == cs[i]
          proposedX == RDiv(card.baseX, s)
          proposedY == RDiv(card.baseY, s)
          adjustedPosition == preventOverlap(cs, sel, g, s, card, proposedX, proposedY)
      IN  preventOverlapsAfterPasteLoop(
              [cs EXCEPT ![i] = [card EXCEPT !.baseX = RMul(adjustedPosition[1], s),
                                             !.baseY = RMul(adjustedPosition[2], s)]],
              i + 1, sel, g, s)

preventOverlapsAfterPaste(cs, sel, g, s) ==
    preventOverlapsAfterPasteLoop(cs, 1, sel, g, s)

RECURSIVE selectAll(_, _, _)
\* selectCard applied to each id of ids in order
selectAll(sel, cf, ids) ==
    IF ids = <<>> THEN sel
    ELSE selectAll(selectCard(sel, cf, Head(ids)), cf, Tail(ids))

\* mutant of pasteCards: the selection is cleared before the clipboard is looked at
pasteCardsClearingFirst ==
    IF Len(clipboard) = 0
    THEN /\ selectedCards' = clearSelection(selectedCards, connectingFrom)
         /\ UNCHANGED <<scale, gridSpacing, cardCount, cards, connectors, connectingFrom,
                        clipboard, isSelecting, startX, startY, selectionRect, gestures>>
    ELSE
      LET new == pastedCards(clipboard, cardCount, scale)
          m == newCardsMap(clipboard, cardCount)
          sel == selectAll(clearSelection(selectedCards, connectingFrom), connectingFrom,
                           [k \in 1..Len(new) |-> new[k].id])
      IN  /\ cardCount' = cardCount + Len(clipboard)
          /\ selectedCards' = sel
          /\ connectors' = connectors \o pastedConnectors(m, clipboard, 1)
          /\ cards' = preventOverlapsAfterPaste(cards \o new, Range(sel), gridSpacing, scale)
          /\ UNCHANGED <<scale, gridSpacing, connectingFrom, clipboard, isSelecting,
                         startX, startY, selectionRect, gestures>>

pasteCards ==
    IF Len(clipboard) = 0
    THEN UNCHANGED vars
    ELSE
      LET new == pastedCards(clipboard, cardCount, scale)
          m == newCardsMap(clipboard, cardCount)
          sel == selectAll(clearSelection(selectedCards, connectingFrom), connectingFrom,
                           [k \in 1..Len(new) |-> new[k].id])
      IN  /\ cardCount' = cardCount + Len(clipboard)
          /\ selectedCards' = sel
          /\ connectors' = connectors \o pastedConnectors(m, clipboard, 1)
          /\ cards' = preventOverlapsAfterPaste(cards \o new, Range(sel), gridSpacing, scale)
          /\ UNCHANGED <<scale, gridSpacing, connectingFrom, clipboard, isSelecting,
                         startX, startY, selectionRect, gestures>>

(***************************************************************************)
(* deleteSelectedCards: confirmed is the answer of confirm().              *)
(***************************************************************************)
\* mutant of deleteSelectedCards: the connectors of the removed cards are kept
deleteSelectedCardsNoCascade(confirmed) ==
    IF Len(selectedCards) = 0 \/ ~confirmed
    THEN UNCHANGED vars
    ELSE
      LET sel == Range(selectedCards)
      IN  /\ cards' = SelectSeq(cards, LAMBDA card : card.id \notin sel)
          /\ connectingFrom' = IF connectingFrom # Null /\ connectingFrom \in sel
                               THEN Null ELSE connectingFrom
          /\ selectedCards' = <<>>
          /\ UNCHANGED <<scale, gridSpacing, cardCount, connectors, clipboard,
                         isSelecting, startX, startY, selectionRect, gestures>>

\* mutant of deleteSelectedCards: the answer of confirm() is not looked at
deleteSelectedCardsUnconfirmed(confirmed) ==
    IF Len(selectedCards) = 0
    THEN UNCHANGED vars
    ELSE
      LET sel == Range(selectedCards)
      IN  /\ cards' = SelectSeq(cards, LAMBDA card : card.id \notin sel)
          /\ connectors' = SelectSeq(connectors,
                                     LAMBDA conn : conn.from \notin sel /\ conn.to \notin sel)
          /\ connectingFrom' = IF connectingFrom # Null /\ connectingFrom \in sel
                               THEN Null ELSE connectingFrom
          /\ selectedCards' = <<>>
          /\ UNCHANGED <<scale, gridSpacing, cardCount, clipboard, isSelecting,
                         startX, startY, selectionRect, gestures>>

\* mutant of deleteSelectedCards: connectingFrom is left as it was
deleteSelectedCardsKeepPending(confirmed) ==
    IF Len(selectedCards) = 0 \/ ~confirmed
    THEN UNCHANGED vars
    ELSE
      LET sel == Range(selectedCards)
      IN  /\ cards' = SelectSeq(cards, LAMBDA card : card.id \notin sel)
          /\ connectors' = SelectSeq(connectors,
                                     LAMBDA conn : conn.from \notin sel /\ conn.to \notin sel)
          /\ selectedCards' = <<>>
          /\ UNCHANGED <<scale, gridSpacing, cardCount, connectingFrom, clipboard,
                         isSelecting, startX, startY, selectionRect, gestures>>

deleteSelectedCards(confirmed) ==
    IF Len(selectedCards) = 0 \/ ~confirmed
    THEN UNCHANGED vars
    ELSE
      LET sel == Range(selectedCards)
      IN  /\ cards' = SelectSeq(cards, LAMBDA card : card.id \notin sel)
          /\ connectors' = SelectSeq(connectors,
                                     LAMBDA conn : conn.from \notin sel /\ conn.to \notin sel)
          /\ connectingFrom' = IF connectingFrom # Null /\ connectingFrom \in sel
                               THEN Null ELSE connectingFrom
          /\ selectedCards' = <<>>
          /\ UNCHANGED <<scale, gridSpacing, cardCount, clipboard, isSelecting,
                         startX, startY, selectionRect, gestures>>


(***************************************************************************)
(* Pointer geometry.  getCardRect: the card's rendered rectangle; the      *)
(* container is taken to sit at the viewport's origin, unscrolled.         *)
(***************************************************************************)
getCardRect(card, s) ==
    [left   |-> RMul(card.baseX, s),
     top    |-> RMul(card.baseY, s),
     width  |-> RMul(card.baseWidth, s),
     height |-> RMul(card.baseHeight, s),
     right  |-> RMul(RAdd(card.baseX, card.baseWidth), s),
     bottom |-> RMul(RAdd(card.baseY, card.baseHeight), s)]

\* the pointer is over the card's box (where its mousedown can be delivered)
pointerOnCard(card, s, clientX, clientY) ==
    LET rect == getCardRect(card, s)
    IN  /\ RLe(rect.left, clientX) /\ RLe(clientX, rect.right)
        /\ RLe(rect.top, clientY) /\ RLe(clientY, rect.bottom)

getResizeDirection(card, s, clientX, clientY) ==
    LET rect == getCardRect(card, s)
        edgeSize == RMul(R(borderWidth), s)
        x == RSub(clientX, rect.left)
        y == RSub(clientY, rect.top)
        leftEdge == RNeg(edgeSize)
        rightEdge == RAdd(rect.width, edgeSize)
        topEdge == RNeg(edgeSize)
        bottomEdge == RAdd(rect.height, edgeSize)
        inTop == RLe(topEdge, y) /\ RLe(y, edgeSize)
        inBottom == RLe(RSub(rect.height, edgeSize), y) /\ RLe(y, bottomEdge)
        inLeft == RLe(leftEdge, x) /\ RLe(x, edgeSize)
        inRight == RLe(RSub(rect.width, edgeSize), x) /\ RLe(x, rightEdge)
        midX == RLt(edgeSize, x) /\ RLt(x, RSub(rect.width, edgeSize))
        midY == RLt(edgeSize, y) /\ RLt(y, RSub(rect.height, edgeSize))
    IN  IF inTop /\ midX THEN "top"
        ELSE IF inBottom /\ midX THEN "bottom"
        ELSE IF inLeft /\ midY THEN "left"
        ELSE IF inRight /\ midY THEN "right"
        ELSE IF inLeft /\ inTop THEN "top-left"
        ELSE IF inRight /\ inTop THEN "top-right"
        ELSE IF inLeft /\ inBottom THEN "bottom-left"
        ELSE IF inRight /\ inBottom THEN "bottom-right"
        ELSE NoDirection

\* the same eight zones as getResizeDirection
isResizingEdge(card, s, clientX, clientY) ==
    getResizeDirection(card, s, clientX, clientY) # NoDirection

(***************************************************************************)
(* handleDrag: the closure it registers, its onMouseMove and onMouseUp.    *)
(***************************************************************************)
dragClosure(cs, sel, s, clientX, clientY) ==
    [kind |-> "drag",
     offsets |-> [k \in 1..Len(sel) |->
                    LET selectedCard == cs[IndexOf(cs, sel[k])]
                    IN  [card |-> sel[k],
                         offsetX |-> RSub(clientX, RMul(selectedCard.baseX, s)),
                         offsetY |-> RSub(clientY, RMul(selectedCard.baseY, s))]]]

RECURSIVE dragMoveLoop(_, _, _, _, _, _, _, _)
\* offsets.forEach(...): a card deleted since the gesture began is a detached
\* object, so moving it changes nothing in this.cards
dragMoveLoop(cs, offsets, k, sel, g, s, clientX, clientY) ==
    IF k > Len(offsets) THEN cs
    ELSE
      LET o == offsets[k]
          i == IndexOf(cs, o.card)
      IN  IF i = 0
          THEN dragMoveLoop(cs, offsets, k + 1, sel, g, s, clientX, clientY)
          ELSE
            LET newX == RDiv(RSub(clientX, o.offsetX), s)
                newY == RDiv(RSub(clientY, o.offsetY), s)
                adjustedPosition == preventOverlap(cs, sel, g, s, cs[i], newX, newY)
            IN  dragMoveLoop(
                    [cs EXCEPT ![i] = [cs[i] EXCEPT !.baseX = adjustedPosition[1],
                                                    !.baseY = adjustedPosition[2]]],
                    offsets, k + 1, sel, g, s, clientX, clientY)

dragMouseMove(cs, closure, sel, g, s, clientX, clientY) ==
    dragMoveLoop(cs, closure.offsets, 1, sel, g, s, clientX, clientY)

\* onMouseUp of a drag: snaps the cards selected now
dragMouseUp(cs, sel, g, s) ==
    [i \in 1..Len(cs) |->
        IF cs[i].id \in sel
        THEN [cs[i] EXCEPT !.baseX = snapToGrid(@, g, s), !.baseY = snapToGrid(@, g, s)]
        ELSE cs[i]]

(***************************************************************************)
(* handleResize: the closure it registers and its onMouseMove.             *)
(***************************************************************************)
resizeClosure(card, direction, clientX, clientY) ==
    [kind |-> "resize", card |-> card.id, direction |-> direction,
     startX |-> clientX, startY |-> clientY,
     initialWidth |-> card.baseWidth, initialHeight |-> card.baseHeight,
     initialX |-> card.baseX, initialY |-> card.baseY]

\* Math.max(min / this.scale, extent), snapped in screen space
resizedExtent(min, extent, g, s) ==
    RDiv(snapToGrid(RMul(RMax(RDiv(R(min), s), extent), s), g, s), s)

resizedGeometry(c, g, s, clientX, clientY) ==
    LET deltaX == RDiv(RSub(clientX, c.startX), s)
        deltaY == RDiv(RSub(clientY, c.startY), s)
        d == c.direction
        newWidth ==
            IF d \in {"left", "top-left", "bottom-left"}
            THEN resizedExtent(100, RSub(c.initialWidth, deltaX), g, s)
            ELSE IF d \in {"right", "top-right", "bottom-right"}
            THEN resizedExtent(100, RAdd(c.initialWidth, deltaX), g, s)
            ELSE c.initialWidth
        newHeight ==
            IF d \in {"top", "top-left", "top-right"}
            THEN resizedExtent(50, RSub(c.initialHeight, deltaY), g, s)
            ELSE IF d \in {"bottom", "bottom-left", "bottom-right"}
            THEN resizedExtent(50, RAdd(c.initialHeight, deltaY), g, s)
            ELSE c.initialHeight
        newX ==
            IF d \in {"left", "top-left", "bottom-left"}
            THEN RAdd(c.initialX, RSub(c.initialWidth, newWidth))
            ELSE c.initialX
        newY ==
            IF d \in {"top", "top-left", "top-right"}
            THEN RAdd(c.initialY, RSub(c.initialHeight, newHeight))
            ELSE c.initialY
    IN  [baseWidth |-> newWidth, baseHeight |-> newHeight, baseX |-> newX, baseY |-> newY]

resizeMouseMove(cs, closure, g, s, clientX, clientY) ==
    LET i == IndexOf(cs, closure.card)
        n == resizedGeometry(closure, g, s, clientX, clientY)
    IN  IF i = 0 THEN cs
        ELSE [cs EXCEPT ![i] = [cs[i] EXCEPT !.baseWidth = n.baseWidth,
                                             !.baseHeight = n.baseHeight,
                                             !.baseX = n.baseX,
                                             !.baseY = n.baseY]]

(***************************************************************************)
(* onCardMouseDown(event, card).                                           *)
(***************************************************************************)
\* the selection after the synchronous update of a mousedown on a card body
selectionAfterMouseDown(sel, cf, id, additive) ==
    IF additive
    THEN (IF id \in Range(sel) THEN without(sel, id) ELSE selectCard(sel, cf, id))
    ELSE (IF id \notin Range(sel)
          THEN selectCard(clearSelection(sel, cf), cf, id)
          ELSE sel)

\* mutant of onCardMouseDown: the Alt key is not looked at
onCardMouseDownWithAlt(i, clientX, clientY, additive, altKey, onInput) ==
    LET card == cards[i]
        sel == selectionAfterMouseDown(selectedCards, connectingFrom, card.id, additive)
    IN  IF onInput
        THEN UNCHANGED vars
        ELSE IF isResizingEdge(card, scale, clientX, clientY)
        THEN /\ gestures' = Append(gestures,
                     resizeClosure(card, getResizeDirection(card, scale, clientX, clientY),
                                   clientX, clientY))
             /\ UNCHANGED <<scale, gridSpacing, cardCount, cards, connectors,
                            connectingFrom, selectedCards, clipboard, isSelecting,
                            startX, startY, selectionRect>>
        ELSE /\ selectedCards' = sel
             /\ gestures' = IF card.id \in Range(sel)
                            THEN Append(gestures,
                                        dragClosure(cards, sel, scale, clientX, clientY))
                            ELSE gestures
             /\ UNCHANGED <<scale, gridSpacing, cardCount, cards, connectors,
                            connectingFrom, clipboard, isSelecting, startX, startY,
                            selectionRect>>

\* mutant of onCardMouseDown: the drag starts whether or not the card ended
\* up selected
onCardMouseDownAlwaysDragging(i, clientX, clientY, additive, altKey, onInput) ==
    LET card == cards[i]
        sel == selectionAfterMouseDown(selectedCards, connectingFrom, card.id, additive)
    IN  IF onInput \/ altKey
        THEN UNCHANGED vars
        ELSE IF isResizingEdge(card, scale, clientX, clientY)
        THEN /\ gestures' = Append(gestures,
                     resizeClosure(card, getResizeDirection(card, scale, clientX, clientY),
                                   clientX, clientY))
             /\ UNCHANGED <<scale, gridSpacing, cardCount, cards, connectors,
                            connectingFrom, selectedCards, clipboard, isSelecting,
                            startX, startY, selectionRect>>
        ELSE /\ selectedCards' = sel
             /\ gestures' = Append(gestures,
                                   dragClosure(cards, sel, scale, clientX, clientY))
             /\ UNCHANGED <<scale, gridSpacing, cardCount, cards, connectors,
                            connectingFrom, clipboard, isSelecting, startX, startY,
                            selectionRect>>

onCardMouseDown(i, clientX, clientY, additive, altKey, onInput) ==
    LET card == cards[i]
        sel == selectionAfterMouseDown(selectedCards, connectingFrom, card.id, additive)
    IN  IF onInput \/ altKey
        THEN UNCHANGED vars
        ELSE IF isResizingEdge(card, scale, clientX, clientY)
        THEN /\ gestures' = Append(gestures,
                     resizeClosure(card, getResizeDirection(card, scale, clientX, clientY),
                                   clientX, clientY))
             /\ UNCHANGED <<scale, gridSpacing, cardCount, cards, connectors,
                            connectingFrom, selectedCards, clipboard, isSelecting,
                            startX, startY, selectionRect>>
        ELSE /\ selectedCards' = sel
             /\ gestures' = IF card.id \in Range(sel)
                            THEN Append(gestures,
                                        dragClosure(cards, sel, scale, clientX, clientY))
                            ELSE gestures
             /\ UNCHANGED <<scale, gridSpacing, cardCount, cards, connectors,
                            connectingFrom, clipboard, isSelecting, startX, startY,
                            selectionRect>>

(***************************************************************************)
(* startSelection(event): mousedown whose target is the container itself.  *)
(***************************************************************************)
\* mutant of startSelection: the Alt key is not looked at
startSelectionWithAlt(clientX, clientY, additive, altKey) ==
    /\ isSelecting' = TRUE
    /\ startX' = clientX
    /\ startY' = clientY
    /\ selectedCards' = IF additive THEN selectedCards
                        ELSE clearSelection(selectedCards, connectingFrom)
    /\ selectionRect' = [left |-> clientX, top |-> clientY,
                         width |-> R(0), height |-> R(0)]
    /\ UNCHANGED <<scale, gridSpacing, cardCount, cards, connectors, connectingFrom,
                   clipboard, gestures>>

startSelection(clientX, clientY, additive, altKey) ==
    IF ~altKey
    THEN /\ isSelecting' = TRUE
         /\ startX' = clientX
         /\ startY' = clientY
         /\ selectedCards' = IF additive THEN selectedCards
                             ELSE clearSelection(selectedCards, connectingFrom)
         /\ selectionRect' = [left |-> clientX, top |-> clientY,
                              width |-> R(0), height |-> R(0)]
         /\ UNCHANGED <<scale, gridSpacing, cardCount, cards, connectors, connectingFrom,
                        clipboard, gestures>>
    ELSE UNCHANGED vars

(***************************************************************************)
(* document mousemove: the component's onMouseMove (rectangle select),     *)
(* then the onMouseMove of every registered closure, in registration order.*)
(***************************************************************************)
movedSelectionRect(clientX, clientY) ==
    [left |-> RMin(startX, clientX), top |-> RMin(startY, clientY),
     width |-> RAbs(RSub(clientX, startX)), height |-> RAbs(RSub(clientY, startY))]

\* mutant of rectSelectLoop: a card outside the rectangle is deselected even
\* when it is the connectingFrom card
RECURSIVE rectSelectLoopDroppingPending(_, _, _, _, _, _, _)
rectSelectLoopDroppingPending(cs, i, sel, cf, s, rect, additive) ==
    IF i > Len(cs) THEN sel
    ELSE
      LET card == cs[i]
          cardRect == getCardRect(card, s)
          isInside == /\ RLt(cardRect.left, rect.right)
                      /\ RLt(rect.left, cardRect.right)
                      /\ RLt(cardRect.top, rect.bottom)
                      /\ RLt(rect.top, cardRect.bottom)
          next == IF isInside /\ card.id \notin Range(sel)
                  THEN selectCard(sel, cf, card.id)
                  ELSE IF ~isInside /\ card.id \in Range(sel) /\ ~additive
                  THEN without(sel, card.id)
                  ELSE sel
      IN  rectSelectLoopDroppingPending(cs, i + 1, next, cf, s, rect, additive)

RECURSIVE rectSelectLoop(_, _, _, _, _, _, _)
rectSelectLoop(cs, i, sel, cf, s, rect, additive) ==
    IF i > Len(cs) THEN sel
    ELSE
      LET card == cs[i]
          cardRect == getCardRect(card, s)
          isInside == /\ RLt(cardRect.left, rect.right)
                      /\ RLt(rect.left, cardRect.right)
                      /\ RLt(cardRect.top, rect.bottom)
                      /\ RLt(rect.top, cardRect.bottom)
          next == IF isInside /\ card.id \notin Range(sel)
                  THEN selectCard(sel, cf, card.id)
                  ELSE IF ~isInside /\ card.id \in Range(sel) /\ cf # card.id /\ ~additive
                  THEN without(sel, card.id)
                  ELSE sel
      IN  rectSelectLoop(cs, i + 1, next, cf, s, rect, additive)

RECURSIVE closuresMouseMove(_, _, _, _, _, _, _, _)
closuresMouseMove(cs, gs, k, sel, g, s, clientX, clientY) ==
    IF k > Len(gs) THEN cs
    ELSE closuresMouseMove(
             IF gs[k].kind = "drag"
             THEN dragMouseMove(cs, gs[k], sel, g, s, clientX, clientY)
             ELSE resizeMouseMove(cs, gs[k], g, s, clientX, clientY),
             gs, k + 1, sel, g, s, clientX, clientY)

onMouseMove(clientX, clientY, additive) ==
    LET r == movedSelectionRect(clientX, clientY)
        rect == [left |-> r.left, top |-> r.top,
                 right |-> RAdd(r.left, r.width), bottom |-> RAdd(r.top, r.height)]
        sel == IF isSelecting
               THEN rectSelectLoop(cards, 1, selectedCards, connectingFrom, scale,
                                   rect, additive)
               ELSE selectedCards
    IN  /\ selectionRect' = IF isSelecting THEN r ELSE selectionRect
        /\ selectedCards' = sel
        /\ cards' = closuresMouseMove(cards, gestures, 1, Range(sel), gridSpacing, scale,
                                      clientX, clientY)
        /\ UNCHANGED <<scale, gridSpacing, cardCount, connectors, connectingFrom,
                       clipboard, isSelecting, startX, startY, gestures>>

(***************************************************************************)
(* document mouseup: the component's onMouseUp, then every closure's       *)
(* onMouseUp, each of which deregisters its own pair of handlers.          *)
(***************************************************************************)
\* mutant of onMouseUp: the handlers of a resize stay registered
onMouseUpKeepingResize ==
    /\ isSelecting' = FALSE
    /\ cards' = IF \E k \in 1..Len(gestures) : gestures[k].kind = "drag"
                THEN dragMouseUp(cards, Range(selectedCards), gridSpacing, scale)
                ELSE cards
    /\ gestures' = SelectSeq(gestures, LAMBDA c : c.kind = "resize")
    /\ UNCHANGED <<scale, gridSpacing, cardCount, connectors, connectingFrom,
                   selectedCards, clipboard, startX, startY, selectionRect>>

onMouseUp ==
    /\ isSelecting' = FALSE
    /\ cards' = IF \E k \in 1..Len(gestures) : gestures[k].kind = "drag"
                THEN dragMouseUp(cards, Range(selectedCards), gridSpacing, scale)
                ELSE cards
    /\ gestures' = <<>>
    /\ UNCHANGED <<scale, gridSpacing, cardCount, connectors, connectingFrom,
                   selectedCards, clipboard, startX, startY, selectionRect>>

(***************************************************************************)
(* The text input of a card (ngModel on card.inputValue).                  *)
(***************************************************************************)
\* mutant of editText: the clipboard entry copied from the card shares its text
editTextShared(i, text) ==
    /\ cards' = [cards EXCEPT ![i].inputValue = text]
    /\ clipboard' = [k \in 1..Len(clipboard) |->
                        IF clipboard[k].title = cards[i].title
                        THEN [clipboard[k] EXCEPT !.inputValue = text]
                        ELSE clipboard[k]]
    /\ UNCHANGED <<scale, gridSpacing, cardCount, connectors, connectingFrom,
                   selectedCards, isSelecting, startX, startY,
                   selectionRect, gestures>>

editText(i, text) ==
    /\ cards' = [cards EXCEPT ![i].inputValue = text]
    /\ UNCHANGED <<scale, gridSpacing, cardCount, connectors, connectingFrom,
                   selectedCards, clipboard, isSelecting, startX, startY,
                   selectionRect, gestures>>


(***************************************************************************)
(* The events the host delivers, with their inputs drawn from small sets.  *)
(***************************************************************************)
\* wheel steps and the zoom buttons
ZoomDeltas == {<<9, 10>>, <<11, 10>>}

\* sizes asked of setGridSpacing (some outside [10, 200])
GridSizes == {0, 30, 50, 200, 250}

\* pointer positions of mousemove samples and of mousedowns on the background
PointerXs == {50, 250, 350, 500}
PointerYs == {50, 150, 250}

\* what the user types into a card
Texts == {"", "a"}

\* where on a card a mousedown lands: its centre or one of the eight handles
Zones == {"body", "top", "bottom", "left", "right",
          "top-left", "top-right", "bottom-left", "bottom-right"}

zoneX(card, s, zone) ==
    LET rect == getCardRect(card, s)
    IN  IF zone \in {"left", "top-left", "bottom-left"} THEN rect.left
        ELSE IF zone \in {"right", "top-right", "bottom-right"} THEN rect.right
        ELSE RAdd(rect.left, RDiv(rect.width, R(2)))

zoneY(card, s, zone) ==
    LET rect == getCardRect(card, s)
    IN  IF zone \in {"top", "top-left", "top-right"} THEN rect.top
        ELSE IF zone \in {"bottom", "bottom-left", "bottom-right"} THEN rect.bottom
        ELSE RAdd(rect.top, RDiv(rect.height, R(2)))

AddNewCard ==
    /\ cardCount < MaxCardCount
    /\ GeometryInBounds
    /\ addNewCard

SetGridSpacing(sizes) ==
    /\ GeometryInBounds
    /\ \E size \in sizes : setGridSpacing(size)

\* with cards on the canvas the exact coordinates bound the zoom steps
Zoom ==
    /\ ZoomSteps(scale) < MaxZoomDepth
    /\ \E delta \in ZoomDeltas : zoom(delta)

\* on an empty canvas only the scale is computed
ZoomEmptyCanvas ==
    /\ cards = <<>>
    /\ clipboard = <<>>
    /\ ZoomSteps(scale) <= MaxZoomSteps
    /\ \E delta \in ZoomDeltas : zoom(delta)

CardClick ==
    \E i \in 1..Len(cards), altKey \in BOOLEAN, onInput \in BOOLEAN :
        onCardClick(cards[i].id, altKey, onInput)

\* a mousedown on a card, in one of the given zones, with no button held
\* already (every press follows the release of the one before)
CardMouseDown(zones) ==
    /\ gestures = <<>>
    /\ ~isSelecting
    /\ GeometryInBounds
    /\ \E i \in 1..Len(cards), zone \in zones,
          additive \in BOOLEAN, altKey \in BOOLEAN, onInput \in BOOLEAN :
          /\ onInput => zone = "body"
          /\ onCardMouseDown(i, zoneX(cards[i], scale, zone), zoneY(cards[i], scale, zone),
                             additive, altKey, onInput)

CanvasMouseDown ==
    /\ gestures = <<>>
    /\ ~isSelecting
    /\ GeometryInBounds
    /\ \E x \in PointerXs, y \in PointerYs, additive \in BOOLEAN, altKey \in BOOLEAN :
          /\ \A i \in 1..Len(cards) : ~pointerOnCard(cards[i], scale, R(x), R(y))
          /\ startSelection(R(x), R(y), additive, altKey)

MouseMove(xs, ys) ==
    /\ GeometryInBounds
    /\ \E x \in xs, y \in ys, additive \in BOOLEAN :
          onMouseMove(R(x), R(y), additive)

MouseUp ==
    /\ GeometryInBounds
    /\ onMouseUp

CopyCards ==
    /\ GeometryInBounds
    /\ copyCards

PasteCards ==
    /\ cardCount + Len(clipboard) <= MaxCardCount
    /\ GeometryInBounds
    /\ pasteCards

DeleteSelectedCards == \E confirmed \in BOOLEAN : deleteSelectedCards(confirmed)

EditText == \E i \in 1..Len(cards), text \in Texts : editText(i, text)

(***************************************************************************)
(* Specifications.  All start from the state ngAfterViewInit leaves; each  *)
(* takes the handlers its claims are about.                                *)
(***************************************************************************)
\* Spec: connect, select, copy, paste and delete.  To bound the runs, the
\* connectors are toggled and the copy is made while the clipboard is still
\* empty; selecting, pasting and deleting go on afterwards.
ConnectBeforeCopy == clipboard = <<>> /\ CardClick

CopyOnce == clipboard = <<>> /\ CopyCards

Next ==
    \/ ConnectBeforeCopy
    \/ CardMouseDown({"body"})
    \/ MouseUp
    \/ CopyOnce
    \/ PasteCards
    \/ DeleteSelectedCards

Spec == Init /\ [][Next]_vars

\* SpecText: typed text carried through copy and paste.
NextText ==
    \/ EditText
    \/ CardMouseDown({"body"})
    \/ MouseUp
    \/ CopyOnce
    \/ PasteCards

SpecText == Init /\ [][NextText]_vars

\* SpecZoom: the zoom scale, on to an emptied canvas where only the scale
\* is computed and the zoom can go on to the limits.
NextZoom ==
    \/ CardMouseDown({"body"})
    \/ MouseUp
    \/ DeleteSelectedCards
    \/ Zoom
    \/ ZoomEmptyCanvas

SpecZoom == Init /\ [][NextZoom]_vars

\* SpecRefs: Spec with the zoom-out button used before the first connection
\* and the add button used once a copy has been made, between gestures.
ZoomOutBeforeConnect ==
    /\ clipboard = <<>>
    /\ connectors = <<>>
    /\ scale = R(1)
    /\ ZoomSteps(scale) < MaxZoomDepth
    /\ zoom(<<9, 10>>)

AddAfterCopy == clipboard # <<>> /\ gestures = <<>> /\ selectedCards = <<>> /\ AddNewCard

NextRefs ==
    \/ ConnectBeforeCopy
    \/ CardMouseDown({"body"})
    \/ MouseUp
    \/ CopyOnce
    \/ PasteCards
    \/ DeleteSelectedCards
    \/ ZoomOutBeforeConnect
    \/ AddAfterCopy

SpecRefs == Init /\ [][NextRefs]_vars

\* SpecGeom: resizing by the right and bottom handles to one pointer
\* position, zoom, and one change of the grid spacing from its default.
GeomZones == {"right", "bottom"}
GeomXs == {200}
GeomYs == {150}
GeomGridSizes == {30, 70, 200}

GridChangeFromDefault == gridSpacing = 50 /\ SetGridSpacing(GeomGridSizes)

NextGeom ==
    \/ CardMouseDown(GeomZones)
    \/ MouseMove(GeomXs, GeomYs)
    \/ MouseUp
    \/ Zoom
    \/ GridChangeFromDefault

SpecGeom == Init /\ [][NextGeom]_vars

\* SpecPaste: select, copy and paste at each zoom scale and grid spacing;
\* the scale and the grid spacing are set before the copy.
ZoomBeforeCopy == clipboard = <<>> /\ Zoom

GridChangeBeforeCopy == clipboard = <<>> /\ GridChangeFromDefault

NextPaste ==
    \/ CardMouseDown({"body"})
    \/ MouseUp
    \/ ZoomBeforeCopy
    \/ GridChangeBeforeCopy
    \/ CopyOnce
    \/ PasteCards

SpecPaste == Init /\ [][NextPaste]_vars


\* SpecZoomRequests: zoom(delta) called with the multipliers of the buttons
\* and the wheel and with halving and doubling, which meet both limits with
\* cards on the canvas, next to selecting and connecting.
ZoomMultipliers == {<<1, 2>>, <<9, 10>>, <<11, 10>>, <<2, 1>>}

ZoomRequest ==
    \E delta \in ZoomMultipliers :
        /\ scaleAccepted(RMul(scale, delta)) => RMul(scale, delta)[2] <= MaxScaleDenominator
        /\ zoom(delta)

NextZoomRequests ==
    \/ ZoomRequest
    \/ CardClick
    \/ CardMouseDown({"body"})
    \/ MouseUp

SpecZoomRequests == Init /\ [][NextZoomRequests]_vars


\* SpecToggle: alt-click toggles before the copy on any card and after it on
\* the pasted cards; the selection is made before the copy.
ClickPastedCard ==
    \E i \in 3..Len(cards), altKey \in BOOLEAN, onInput \in BOOLEAN :
        onCardClick(cards[i].id, altKey, onInput)

SelectBeforeCopy == clipboard = <<>> /\ CardMouseDown({"body"})

NextToggle ==
    \/ ConnectBeforeCopy
    \/ ClickPastedCard
    \/ SelectBeforeCopy
    \/ MouseUp
    \/ CopyOnce
    \/ PasteCards

SpecToggle == Init /\ [][NextToggle]_vars


\* SpecWide: zoom by the buttons and resizing by the bottom-right handle to
\* a far pointer position, which makes wide and tall cards.
WideXs == {1100}
WideYs == {900}

NextWide ==
    \/ CardMouseDown({"bottom-right"})
    \/ MouseMove(WideXs, WideYs)
    \/ MouseUp
    \/ Zoom

SpecWide == Init /\ [][NextWide]_vars


\* SpecButtons: presses and releases, where a further mouse button may go
\* down on a card while one is held (mousedown is delivered for every button
\* and onCardMouseDown does not look at event.button).
FurtherButtonDown(zones) ==
    /\ gestures # <<>>
    /\ Len(gestures) < MaxGestures
    /\ ~isSelecting
    /\ GeometryInBounds
    /\ \E i \in 1..Len(cards), zone \in zones, additive \in BOOLEAN :
          onCardMouseDown(i, zoneX(cards[i], scale, zone), zoneY(cards[i], scale, zone),
                          additive, FALSE, FALSE)

ButtonZones == {"body", "right"}

NextButtons ==
    \/ CardMouseDown(ButtonZones)
    \/ FurtherButtonDown(ButtonZones)
    \/ MouseUp

SpecButtons == Init /\ [][NextButtons]_vars


\* SpecClipboard: one copy, then every operation on the two original cards:
\* moving and resizing the first card, typing, alt-clicks, deleting, pasting.
AfterCopy == clipboard # <<>> /\ cardCount = 2

\* a press on the first card with no modifier key held
PlainFirstCardMouseDown(zones) ==
    /\ gestures = <<>>
    /\ ~isSelecting
    /\ GeometryInBounds
    /\ cards # <<>>
    /\ \E zone \in zones :
          onCardMouseDown(1, zoneX(cards[1], scale, zone), zoneY(cards[1], scale, zone),
                          FALSE, FALSE, FALSE)

ClipboardZones == {"body", "right"}
ClipboardXs == {500}
ClipboardYs == {400}

PressAfterCopy == AfterCopy /\ PlainFirstCardMouseDown(ClipboardZones)

MoveAfterCopy == AfterCopy /\ MouseMove(ClipboardXs, ClipboardYs)

ClickAfterCopy == AfterCopy /\ gestures = <<>> /\ CardClick

TypeAfterCopy == AfterCopy /\ \E i \in 1..Len(cards) : editText(i, "a")

DeleteAfterCopy == clipboard # <<>> /\ DeleteSelectedCards

NextClipboard ==
    \/ ConnectBeforeCopy
    \/ SelectBeforeCopy
    \/ CopyOnce
    \/ PressAfterCopy
    \/ MoveAfterCopy
    \/ MouseUp
    \/ ClickAfterCopy
    \/ TypeAfterCopy
    \/ DeleteAfterCopy
    \/ PasteCards

SpecClipboard == Init /\ [][NextClipboard]_vars


\* SpecGrid: grid size requests by the two step buttons and by the number
\* input, on the initial cards and on an emptied canvas.  With cards on the
\* canvas a request is made from the initial spacing or asks for a size
\* outside [10, 200].
GridRequest(size) ==
    /\ cards = <<>> \/ gridSpacing = 50 \/ size \notin 10..200
    /\ SetGridSpacing({size})

GridStepButton == \E step \in {-10, 10} : GridRequest(gridSpacing + step)

GridSizeInput == \E size \in GridSizes : GridRequest(size)

NextGrid ==
    \/ GridStepButton
    \/ GridSizeInput
    \/ CardMouseDown({"body"})
    \/ MouseUp
    \/ DeleteSelectedCards

SpecGrid == Init /\ [][NextGrid]_vars


\* SpecRecopy: copies repeated at will, with whatever is selected, until
\* the first paste.
CopyBeforePaste == cardCount = 2 /\ CopyCards

NextRecopy ==
    \/ CardMouseDown({"body"})
    \/ MouseUp
    \/ CopyBeforePaste
    \/ PasteCards
    \/ DeleteSelectedCards

SpecRecopy == Init /\ [][NextRecopy]_vars


\* SpecAdd: the Add New Card button at the scales and grid sizes that one
\* zoom step and one grid change from the initial ones give.
NextAdd ==
    \/ AddNewCard
    \/ GridChangeFromDefault
    \/ Zoom

SpecAdd == Init /\ [][NextAdd]_vars


\* SpecObstacles: cards added at the cascading default position, which
\* overlap one another, selections among them and one zoom step.
NextObstacles ==
    \/ AddNewCard
    \/ Zoom
    \/ CardMouseDown({"body"})
    \/ MouseUp

SpecObstacles == Init /\ [][NextObstacles]_vars


\* SpecRect: rectangle selection on the two initial cards, with alt-clicks
\* that make a card pending or join the two.
NextRect ==
    \/ CardClick
    \/ CanvasMouseDown
    \/ MouseMove(PointerXs, PointerYs)
    \/ MouseUp

SpecRect == Init /\ [][NextRect]_vars


\* SpecPress: pointer presses on the background and on the cards, on the
\* body and on the right handle, with every modifier, and alt-clicks.
PressZones == {"body", "right"}

NextPress ==
    \/ CardClick
    \/ CanvasMouseDown
    \/ CardMouseDown(PressZones)
    \/ MouseUp

SpecPress == Init /\ [][NextPress]_vars


\* SpecRelease: plain presses on the body and on the right handle of a
\* card, a further button going down while one is held, pointer moves with
\* and without a registered gesture, and releases.
ReleaseZones == {"body", "right"}
ReleaseXs == {350}
ReleaseYs == {150}

PlainCardMouseDown(zones) ==
    /\ gestures = <<>>
    /\ ~isSelecting
    /\ GeometryInBounds
    /\ \E i \in 1..Len(cards), zone \in zones :
          onCardMouseDown(i, zoneX(cards[i], scale, zone), zoneY(cards[i], scale, zone),
                          FALSE, FALSE, FALSE)

PlainFurtherButtonDown(zones) ==
    /\ gestures # <<>>
    /\ Len(gestures) < MaxGestures
    /\ ~isSelecting
    /\ GeometryInBounds
    /\ \E i \in 1..Len(cards), zone \in zones :
          onCardMouseDown(i, zoneX(cards[i], scale, zone), zoneY(cards[i], scale, zone),
                          FALSE, FALSE, FALSE)

NextRelease ==
    \/ PlainCardMouseDown(ReleaseZones)
    \/ PlainFurtherButtonDown(ReleaseZones)
    \/ MouseMove(ReleaseXs, ReleaseYs)
    \/ MouseUp

SpecRelease == Init /\ [][NextRelease]_vars


\* SpecFrame: every operation of the canvas, with connectors present.  To
\* bound the runs, the cards are connected first; presses go to the first
\* card while it is as it was made (so one drag or resize is made); the
\* zoom and the grid spacing are changed once, before the copy; cards are
\* added after the copy.
FrameXs == {350}
FrameYs == {150}
FrameGridSizes == {30}
FrameZones == {"body", "right"}

AtRest == gestures = <<>> /\ ~isSelecting

ConnectFirst ==
    /\ AtRest
    /\ clipboard = <<>>
    /\ selectedCards = <<>>
    /\ scale = R(1)
    /\ gridSpacing = 50
    /\ cardCount = 2
    /\ Len(cards) = 2
    /\ CardClick

FreshCardMouseDown ==
    /\ scale = R(1)
    /\ gridSpacing = 50
    /\ cards # <<>>
    /\ cards[1] = NewCard(1, R(100), R(100), 50, R(1))
    /\ PlainFirstCardMouseDown(FrameZones)

PlainCanvasMouseDown ==
    /\ AtRest
    /\ GeometryInBounds
    /\ \A i \in 1..Len(cards) : ~pointerOnCard(cards[i], scale, R(50), R(50))
    /\ startSelection(R(50), R(50), FALSE, FALSE)

ZoomAtRest == AtRest /\ clipboard = <<>> /\ gridSpacing = 50 /\ Zoom

GridChangeAtRest ==
    /\ AtRest
    /\ clipboard = <<>>
    /\ scale = R(1)
    /\ gridSpacing = 50
    /\ SetGridSpacing(FrameGridSizes)

AddAtRest == AtRest /\ clipboard # <<>> /\ AddNewCard

NextFrame ==
    \/ ConnectFirst
    \/ FreshCardMouseDown
    \/ PlainCanvasMouseDown
    \/ MouseMove(FrameXs, FrameYs)
    \/ MouseUp
    \/ ZoomAtRest
    \/ GridChangeAtRest
    \/ AddAtRest
    \/ CopyOnce
    \/ PasteCards
    \/ DeleteSelectedCards

SpecFrame == Init /\ [][NextFrame]_vars


(***************************************************************************)
(*                               CLAIMS                                    *)
(***************************************************************************)

\* ---- C1 -----------------------------------------------------------------
\* C1: no dangling reference: every connector's from and to, every selected
\* card and a non-null connectingFrom are cards of the card list.
NoDanglingReference ==
    /\ \A k \in 1..Len(connectors) :
          connectors[k].from \in CardIds(cards) /\ connectors[k].to \in CardIds(cards)
    /\ Range(selectedCards) \subseteq CardIds(cards)
    /\ connectingFrom = Null \/ connectingFrom \in CardIds(cards)

\* C1 witness: a card that was copied together with a connector has been
\* deleted (the clipboard still names it), while cards remain.
DeletedConnectedCard ==
    /\ cards # <<>>
    /\ \E k \in 1..Len(clipboard) : \E c \in 1..Len(clipboard[k].connections) :
          \/ clipboard[k].connections[c].fromId \notin CardIds(cards)
          \/ clipboard[k].connections[c].toId \notin CardIds(cards)

\* ---- C2 -----------------------------------------------------------------
\* C2 (as claimed): at most one connector per unordered pair of cards.
AtMostOneConnectorPerPair ==
    \A j, k \in 1..Len(connectors) :
        j # k => {connectors[j].from, connectors[j].to}
                   # {connectors[k].from, connectors[k].to}

\* ---- C3 -----------------------------------------------------------------
\* the clipboard a copy of the current selection makes
FreshCopy ==
    [k \in 1..Len(selectedCards) |->
        clipboardEntry(cards, connectors, scale, selectedCards[k])]

\* the number of connectors with both endpoints among the cards ids
ConnectorsAmong(ids) ==
    Cardinality({k \in 1..Len(connectors) :
                    connectors[k].from \in ids /\ connectors[k].to \in ids})

\* C3 (as claimed): a paste of a copy of the current selection, which has M
\* connectors with both endpoints in it, adds exactly M connectors.
PasteAddsCopiedConnectors ==
    [][(selectedCards # <<>> /\ clipboard = FreshCopy /\ pasteCards)
          => Len(connectors') = Len(connectors) + ConnectorsAmong(Range(selectedCards))]_vars

\* ---- C4 -----------------------------------------------------------------
\* C4: a paste appends one card per clipboard entry; each new card has an id
\* no card had before the paste and no other new card has, and the title and
\* text of its clipboard entry.
PasteAppendsNewCards ==
    [][(clipboard # <<>> /\ pasteCards) =>
          /\ Len(cards') = Len(cards) + Len(clipboard)
          /\ \A i \in 1..Len(cards) : cards'[i].id = cards[i].id
          /\ \A k \in 1..Len(clipboard) :
                LET new == cards'[Len(cards) + k]
                IN  /\ new.id \notin CardIds(cards)
                    /\ new.title = clipboard[k].title
                    /\ new.inputValue = clipboard[k].inputValue
                    /\ \A j \in 1..Len(clipboard) :
                          j # k => cards'[Len(cards) + j].id # new.id]_vars

\* C4 witness: two cards pasted from one clipboard, carrying the titles of
\* cards 1 and 2 and a typed text.
PastedTwoWithText ==
    /\ Len(cards) = 4
    /\ cards[3].id = CardId(3) /\ cards[3].title = CardTitle(1)
    /\ cards[4].id = CardId(4) /\ cards[4].title = CardTitle(2)
    /\ cards[3].inputValue = "a"
    /\ Len(clipboard) = 2 /\ clipboard[1].inputValue = "a"

\* ---- C5 -----------------------------------------------------------------
\* C5 (as claimed): a paste leaves every card there was before it with the
\* same x, y, width and height, and every connector there was in place.
PasteLeavesExistingUnchanged ==
    [][(clipboard # <<>> /\ Len(cards') > Len(cards) /\ pasteCards) =>
          /\ \A i \in 1..Len(cards) :
                /\ cards'[i].id = cards[i].id
                /\ cards'[i].baseX = cards[i].baseX
                /\ cards'[i].baseY = cards[i].baseY
                /\ cards'[i].baseWidth = cards[i].baseWidth
                /\ cards'[i].baseHeight = cards[i].baseHeight
          /\ \A k \in 1..Len(connectors) : connectors'[k] = connectors[k]]_vars

\* ---- C6 -----------------------------------------------------------------
\* C6: a paste keeps the connectors there were and every connector it adds
\* has both endpoints among the cards it created.
PasteWiresNewCardsOnly ==
    [][(clipboard # <<>> /\ pasteCards) =>
          /\ Len(connectors') >= Len(connectors)
          /\ \A k \in 1..Len(connectors) : connectors'[k] = connectors[k]
          /\ \A k \in (Len(connectors) + 1)..Len(connectors') :
                /\ connectors'[k].from \in CardIds(cards') \ CardIds(cards)
                /\ connectors'[k].to \in CardIds(cards') \ CardIds(cards)]_vars

\* C6 witness: a connector joins two pasted cards (cards whose title is not
\* the default title of their id; under Spec connectors are toggled by hand
\* only before the copy, so this one was made by the paste).
PastedConnectorExists ==
    \E k \in 1..Len(connectors) : \A e \in {connectors[k].from, connectors[k].to} :
        /\ e \in CardIds(cards)
        /\ cards[IndexOf(cards, e)].title # CardTitle(e[2])

\* ---- C7 -----------------------------------------------------------------
\* C7 (as claimed): every card has width >= 100 and height >= 50.
MinimumSize ==
    \A i \in 1..Len(cards) :
        RLe(R(100), cards[i].baseWidth) /\ RLe(R(50), cards[i].baseHeight)

\* ---- C8 -----------------------------------------------------------------
\* every card's x, y, width and height is a multiple of gridSpacing*scale
GridAligned ==
    LET unit == RMul(R(gridSpacing), scale)
    IN  \A i \in 1..Len(cards) :
            /\ IsMultiple(cards[i].baseX, unit)
            /\ IsMultiple(cards[i].baseY, unit)
            /\ IsMultiple(cards[i].baseWidth, unit)
            /\ IsMultiple(cards[i].baseHeight, unit)

\* a step that commits a gesture: the pointer-up that ends a drag or a
\* resize, an accepted zoom, a paste
CommittedGesture ==
    \/ gestures # <<>> /\ gestures' = <<>>
    \/ scale' # scale
    \/ clipboard # <<>> /\ Len(cards') > Len(cards) /\ pasteCards

\* C8 (as claimed): after every committed gesture every card is aligned to
\* the grid of gridSpacing*scale.
CommittedGestureGridAligned == [][CommittedGesture => GridAligned']_vars

\* ---- C9 -----------------------------------------------------------------
\* a mousedown without Ctrl/Shift/Alt on the body of card i, not on its input
PlainBodyPress(i) ==
    /\ ~isResizingEdge(cards[i], scale, zoneX(cards[i], scale, "body"),
                       zoneY(cards[i], scale, "body"))
    /\ onCardMouseDown(i, zoneX(cards[i], scale, "body"), zoneY(cards[i], scale, "body"),
                       FALSE, FALSE, FALSE)

\* C9 (as claimed): such a press on a card that is not selected leaves exactly
\* that card selected, whatever connectingFrom is.
PlainPressSelectsExactlyThatCard ==
    [][\A i \in 1..Len(cards) :
          (cards[i].id \notin Range(selectedCards) /\ PlainBodyPress(i))
              => selectedCards' = <<cards[i].id>>]_vars

\* C9 (amended): with no connection pending the selection becomes exactly
\* that card; with one pending, the connectingFrom card stays selected if it
\* was, and the pressed card joins the selection unless it is the
\* connectingFrom card itself.
PlainPressSelection ==
    [][\A i \in 1..Len(cards) :
          (cards[i].id \notin Range(selectedCards) /\ PlainBodyPress(i)) =>
              /\ connectingFrom = Null => selectedCards' = <<cards[i].id>>
              /\ Range(selectedCards') =
                     (Range(selectedCards) \cap {connectingFrom})
                         \cup ({cards[i].id} \ {connectingFrom})]_vars

\* C9 witness: a drag has just begun for two cards, the pending
\* connectingFrom card (selected before) and the card under the pointer.
PressedBesidePendingConnect ==
    /\ connectingFrom # Null
    /\ Len(selectedCards) = 2
    /\ selectedCards[1] = connectingFrom
    /\ Len(gestures) = 1 /\ gestures[1].kind = "drag"
    /\ Len(gestures[1].offsets) = 2
    /\ LET i == IndexOf(cards, selectedCards[2])
       IN  /\ i # 0
           /\ gestures[1].offsets[2].offsetX =
                  RSub(zoneX(cards[i], scale, "body"), RMul(cards[i].baseX, scale))

\* ---- C10 ----------------------------------------------------------------
\* C10: the zoom scale lies in [0.5, 2.0].
ScaleInBounds == RLe(<<1, 2>>, scale) /\ RLe(scale, R(2))

\* C10 witness: zooming has reached a scale from which one more step of 1.1
\* would leave the interval.
ScaleAtUpperLimit == RLt(R(2), RMul(scale, <<11, 10>>))

\* ---- C11 ----------------------------------------------------------------
\* the proposed scale lies outside [0.5, 2.0]
OutOfRange(newScale) == RLt(newScale, <<1, 2>>) \/ RLt(R(2), newScale)

\* C11: a zoom request whose proposed scale is outside [0.5, 2.0] is a
\* no-op: a step of zoom(delta) with such a delta leaves the scale, the
\* cards, the selection and the connectors as they were.
RejectedZoomIsNoOp ==
    [][\A delta \in ZoomMultipliers :
          (OutOfRange(RMul(scale, delta)) /\ zoom(delta))
              => UNCHANGED <<scale, cards, selectedCards, connectors>>]_vars

\* C11 witness: with a card selected and a connector drawn, the scale is at
\* the upper limit after a zoom, where the multipliers 1.1 and 2 are refused.
SelectedAndConnectedAtLimit ==
    /\ scale = R(2)
    /\ cards # <<>> /\ cards[1].baseWidth = R(400)
    /\ selectedCards # <<>>
    /\ connectors # <<>>

\* ---- C12 ----------------------------------------------------------------
\* C12: every connector joins two different cards.
NoSelfConnector ==
    \A k \in 1..Len(connectors) : connectors[k].from # connectors[k].to

\* C12 witness: connectors were drawn by alt-clicks and by a paste, and an
\* alt-click has left a card pending as connectingFrom.
PendingBesidePastedConnectors ==
    /\ connectingFrom # Null
    /\ Len(cards) = 4
    /\ Len(connectors) = 3

\* ---- C13 ----------------------------------------------------------------
\* the unordered pairs of cards the connectors join
PairsOf(cons) == {{cons[k].from, cons[k].to} : k \in 1..Len(cons)}

\* C13 (as claimed): with no connection pending, alt-clicking a then b and
\* then a then b again, or b then a, leaves the pairs joined as they were.
ToggleTwiceRestores ==
    \A a, b \in CardIds(cards) :
        a # b =>
            LET once == toggleConnector(connectors, a, b)
            IN  /\ PairsOf(toggleConnector(once, a, b)) = PairsOf(connectors)
                /\ PairsOf(toggleConnector(once, b, a)) = PairsOf(connectors)

\* ---- C14 ----------------------------------------------------------------
\* C14: the cards have pairwise distinct ids, none numbered above cardCount;
\* cardCount never decreases and a card that joins the list is numbered above
\* the cardCount before the step, so above every id given before.
IdsUniqueNeverReused ==
    /\ [](/\ \A i, j \in 1..Len(cards) : i # j => cards[i].id # cards[j].id
          /\ \A i \in 1..Len(cards) :
                cards[i].id[1] = "card" /\ cards[i].id[2] <= cardCount)
    /\ [][/\ cardCount' >= cardCount
          /\ \A i \in 1..Len(cards') :
                cards'[i].id \notin CardIds(cards) => cards'[i].id[2] > cardCount]_vars

\* C14 witness: cards 1 and 3 are gone and the last id given, card4, is on
\* the canvas.
NewestCardBesideDeleted ==
    /\ cardCount = 4
    /\ CardIds(cards) = {CardId(2), CardId(4)}

\* ---- C15 ----------------------------------------------------------------
\* the card moving, put at <<x, y>>, overlaps the card other
OverlapsAt(moving, x, y, other) ==
    /\ RLt(x, RAdd(other.baseX, other.baseWidth))
    /\ RLt(other.baseX, RAdd(x, moving.baseWidth))
    /\ RLt(y, RAdd(other.baseY, other.baseHeight))
    /\ RLt(other.baseY, RAdd(y, moving.baseHeight))

\* proposed coordinates that lay the moving extent over the other one by one
\* grid unit from either side, or exactly on it
ProposedAlong(otherStart, otherExtent, movingExtent, unit) ==
    {RAdd(RSub(otherStart, movingExtent), unit),
     otherStart,
     RSub(RAdd(otherStart, otherExtent), unit)}

\* C15 (as claimed): when the proposed rectangle of the moving card overlaps
\* exactly one other card, which is not selected, the position preventOverlap
\* returns does not overlap that card and is a multiple of gridSpacing*scale
\* in both coordinates.
ResolveClearsAndSnaps ==
    LET unit == RMul(R(gridSpacing), scale)
    IN  \A i, j \in 1..Len(cards) :
          (i # j /\ cards[j].id \notin Range(selectedCards)) =>
            \A px \in ProposedAlong(cards[j].baseX, cards[j].baseWidth,
                                    cards[i].baseWidth, unit),
               py \in ProposedAlong(cards[j].baseY, cards[j].baseHeight,
                                    cards[i].baseHeight, unit) :
              (/\ OverlapsAt(cards[i], px, py, cards[j])
               /\ \A k \in 1..Len(cards) :
                     k \notin {i, j} => ~OverlapsAt(cards[i], px, py, cards[k]))
              => LET r == preventOverlap(cards, Range(selectedCards), gridSpacing,
                                         scale, cards[i], px, py)
                 IN  /\ ~OverlapsAt(cards[i], r[1], r[2], cards[j])
                     /\ IsMultiple(r[1], unit)
                     /\ IsMultiple(r[2], unit)

\* ---- C16 ----------------------------------------------------------------
\* C16 (as claimed): at most one drag or resize gesture has its move and up
\* handlers registered.
AtMostOneGesture == Len(gestures) <= 1

\* ---- C17 ----------------------------------------------------------------
\* C17: a delete request with an empty selection, or whose confirmation is
\* declined, leaves the cards, the connectors, the selection and
\* connectingFrom as they were.
UnconfirmedDeleteIsNoOp ==
    [][\A confirmed \in BOOLEAN :
          ((selectedCards = <<>> \/ ~confirmed) /\ deleteSelectedCards(confirmed))
              => UNCHANGED <<cards, connectors, selectedCards, connectingFrom>>]_vars

\* C17 witness: both cards are selected, joined by a connector, and one is
\* the pending connectingFrom card: a delete here would change all four.
AllAtStakeForDelete ==
    /\ Len(cards) = 2
    /\ Len(selectedCards) = 2
    /\ Len(connectors) = 1
    /\ connectingFrom # Null

\* ---- C18 ----------------------------------------------------------------
\* C18: a confirmed delete of a non-empty selection removes the selected
\* cards and keeps the others as they were and in their order; it removes
\* the connectors that touch a selected card and keeps the others in their
\* order; it empties the selection; it clears connectingFrom exactly when
\* that card was removed.
ConfirmedDeleteRemovesExactly ==
    [][(selectedCards # <<>> /\ Len(cards') < Len(cards) /\ deleteSelectedCards(TRUE)) =>
          LET sel == Range(selectedCards)
              kept == {i \in 1..Len(cards) : cards[i].id \notin sel}
          IN  /\ Len(cards') = Cardinality(kept)
              /\ \A i \in kept : \E k \in 1..Len(cards') : cards'[k] = cards[i]
              /\ \A i, j \in kept :
                    i < j => IndexOf(cards', cards[i].id) < IndexOf(cards', cards[j].id)
              /\ connectors' = SelectSeq(connectors,
                                         LAMBDA c : c.from \notin sel /\ c.to \notin sel)
              /\ selectedCards' = <<>>
              /\ connectingFrom' = IF connectingFrom \in sel THEN Null ELSE connectingFrom]_vars

\* C18 witness: the two pasted cards and their connectors were deleted;
\* cards 1 and 2 and the connector between them remain.
OriginalsSurviveDelete ==
    /\ cardCount = 4
    /\ CardIds(cards) = {CardId(1), CardId(2)}
    /\ Len(connectors) = 1
    /\ selectedCards = <<>>

\* ---- C19 ----------------------------------------------------------------
\* the live cards the clipboard entries were copied from: a card keeps the
\* number of its title only while it is the card that was created with it
OriginalsOf(clip, cs) ==
    {i \in 1..Len(cs) : \E k \in 1..Len(clip) : clip[k].title = <<"Card ", cs[i].id[2]>>}

\* C19: once cards were copied, moving, resizing, typing, alt-clicking,
\* deleting and pasting leave the clipboard as it is, and a paste made after
\* the copied cards were deleted appends one new card per clipboard entry,
\* with the title and the text of that entry.
ClipboardIsSnapshot ==
    [][/\ clipboard # <<>> => clipboard' = clipboard
       /\ (clipboard # <<>> /\ OriginalsOf(clipboard, cards) = {} /\ cardCount' > cardCount)
             => /\ Len(cards') = Len(cards) + Len(clipboard)
                /\ \A k \in 1..Len(clipboard) :
                      /\ cards'[Len(cards) + k].id = CardId(cardCount + k)
                      /\ cards'[Len(cards) + k].title = clipboard[k].title
                      /\ cards'[Len(cards) + k].inputValue = clipboard[k].inputValue]_vars

\* C19 witness: both cards were copied and deleted, and the paste that
\* followed made cards 3 and 4 from the clipboard.
PastedAfterOriginalsDeleted ==
    /\ Len(clipboard) = 2
    /\ CardIds(cards) = {CardId(3), CardId(4)}

\* ---- C20 ----------------------------------------------------------------
\* C20 (as claimed): an alt-click on a card other than the pending
\* connectingFrom card joins the two cards if no connector joined them and
\* leaves them unjoined if one did, keeps the connectors of every other pair,
\* and leaves connectingFrom = null.
AltClickTogglesPair ==
    [][\A i \in 1..Len(cards) :
          (/\ connectingFrom # Null
           /\ connectingFrom # cards[i].id
           /\ onCardClick(cards[i].id, TRUE, FALSE))
          => LET pair == {connectingFrom, cards[i].id}
             IN  /\ (pair \in PairsOf(connectors')) <=> (pair \notin PairsOf(connectors))
                 /\ PairsOf(connectors') \ {pair} = PairsOf(connectors) \ {pair}
                 /\ connectingFrom' = Null]_vars

\* ---- C21 ----------------------------------------------------------------
\* C21: an alt-click on a card while no connection is pending makes that card
\* the pending connectingFrom card, and an alt-click on the pending card
\* itself clears connectingFrom; both leave the connectors and the selection
\* as they were.
AltClickSetsThenCancelsPending ==
    [][\A i \in 1..Len(cards) :
          ((connectingFrom = Null \/ connectingFrom = cards[i].id)
             /\ onCardClick(cards[i].id, TRUE, FALSE))
          => /\ connectingFrom' = IF connectingFrom = Null THEN cards[i].id ELSE Null
             /\ connectors' = connectors
             /\ selectedCards' = selectedCards]_vars

\* C21 witness: a card is pending beside a selection it is not part of and
\* a connector, so the alt-click that set it had both to preserve.
PendingOutsideSelection ==
    /\ connectingFrom # Null
    /\ connectingFrom \notin Range(selectedCards)
    /\ selectedCards # <<>>
    /\ connectors # <<>>

\* ---- C22 ----------------------------------------------------------------
\* C22: a paste with a non-empty clipboard leaves every card it created in
\* the selection.
PasteSelectsNewCards ==
    [][(clipboard # <<>> /\ cardCount' > cardCount) =>
          \A n \in (cardCount + 1)..cardCount' :
              /\ CardId(n) \in CardIds(cards')
              /\ CardId(n) \in Range(selectedCards')]_vars

\* C22 witness: two cards were pasted while a selected card was the pending
\* connectingFrom card; the selection holds that card and the two new ones.
PastedSelectedBesidePending ==
    /\ cardCount = 4
    /\ connectingFrom \in Range(selectedCards)
    /\ {CardId(3), CardId(4)} \subseteq Range(selectedCards)

\* ---- C23 ----------------------------------------------------------------
\* C23: gridSpacing is always within [10, 200], and a request for a size
\* sets it to that size when it is within the range, to 10 when it is below
\* and to 200 when it is above.
GridSpacingClamped ==
    /\ [](gridSpacing \in 10..200)
    /\ [][\A size \in GridSizes \cup {gridSpacing - 10, gridSpacing + 10} :
             setGridSpacing(size) =>
                 \/ size \in 10..200 /\ gridSpacing' = size
                 \/ size < 10 /\ gridSpacing' = 10
                 \/ size > 200 /\ gridSpacing' = 200]_vars

\* C23 witness: with both cards on the canvas the spacing stands at 10,
\* which only a request below the range brings about there.
ClampedToLowerLimit ==
    /\ gridSpacing = 10
    /\ Len(cards) = 2

\* ---- C24 ----------------------------------------------------------------
\* C24: a paste while the clipboard is empty leaves the cards, the
\* connectors, the selection, connectingFrom and cardCount as they were.
EmptyPasteIsNoOp ==
    [][(clipboard = <<>> /\ pasteCards) =>
          UNCHANGED <<cards, connectors, selectedCards, connectingFrom, cardCount>>]_vars

\* C24 witness: nothing was copied yet, and both cards are selected, joined
\* and one of them pending: a paste here finds all of it to leave alone.
NothingCopiedAllAtStake ==
    /\ clipboard = <<>>
    /\ Len(selectedCards) = 2
    /\ connectors # <<>>
    /\ connectingFrom \in Range(selectedCards)

\* ---- C25 ----------------------------------------------------------------
\* C25: a copy while nothing is selected leaves the clipboard as it was.
EmptyCopyKeepsClipboard ==
    [][(selectedCards = <<>> /\ copyCards) => clipboard' = clipboard]_vars

\* C25 witness: cards were copied and deselected, nothing was pasted yet:
\* a copy here has an empty selection and a clipboard to keep.
CopiedThenDeselected ==
    /\ clipboard # <<>>
    /\ selectedCards = <<>>
    /\ Len(cards) = 2
    /\ cardCount = 2

\* ---- C26 ----------------------------------------------------------------
\* positions asked of addNewCard(x, y)
RequestedXs == {-60, 0, 103, 125, 400}
RequestedYs == {-10, 97, 200}

\* v is a multiple of unit and no multiple of unit is nearer to x
NearestMultiple(v, x, unit) ==
    /\ IsMultiple(v, unit)
    /\ RLe(RMul(R(2), RAbs(RSub(v, x))), unit)

\* C26: a card made for a requested position, at the current grid size and
\* scale, is stored at the nearest multiples of gridSpacing*scale (at grid
\* size 50 and scale 1 the request (103, 97) is stored as (100, 100)); a
\* card added at the default position is stored at the nearest multiples of
\* gridSpacing*scale too, and is appended after the cards there were.
AddStoresSnappedPosition ==
    /\ [](LET unit == RMul(R(gridSpacing), scale)
          IN  /\ \A x \in RequestedXs, y \in RequestedYs :
                    LET card == NewCard(cardCount + 1, R(x), R(y), gridSpacing, scale)
                    IN  /\ NearestMultiple(card.baseX, R(x), unit)
                        /\ NearestMultiple(card.baseY, R(y), unit)
              /\ (gridSpacing = 50 /\ scale = R(1)) =>
                    LET card == NewCard(cardCount + 1, R(103), R(97), gridSpacing, scale)
                    IN  card.baseX = R(100) /\ card.baseY = R(100))
    /\ [][cardCount' = cardCount + 1 =>
            LET unit == RMul(R(gridSpacing), scale)
                d == RDiv(R(100 + cardCount * 50), scale)
                card == cards'[Len(cards')]
            IN  /\ cards' = Append(cards, card)
                /\ card.id = CardId(cardCount + 1)
                /\ NearestMultiple(card.baseX, d, unit)
                /\ NearestMultiple(card.baseY, d, unit)]_vars

\* C26 witness: a card was added after a zoom step and a grid change, where
\* the default position is not on the grid.
AddedOffDefaultGrid ==
    /\ cardCount > 2
    /\ scale # R(1)
    /\ gridSpacing # 50
    /\ LET d == RDiv(R(100 + (cardCount - 1) * 50), scale)
       IN  /\ ~IsMultiple(d, RMul(R(gridSpacing), scale))
           /\ cards[Len(cards)].id = CardId(cardCount)
           /\ cards[Len(cards)].baseX = snapToGrid(d, gridSpacing, scale)

\* ---- C27 ----------------------------------------------------------------
\* C27 (as claimed): after an accepted zoom the position of every card is
\* the one preventOverlap gives against the rescaled positions of the other
\* cards, before any of them was adjusted.
ZoomResolvesAgainstUnadjusted ==
    [][scale' # scale =>
          LET rescaled == scaleCards(cards, RDiv(scale', scale))
          IN  \A i \in 1..Len(cards) :
                  LET r == preventOverlap(rescaled, Range(selectedCards), gridSpacing,
                                          scale', rescaled[i],
                                          rescaled[i].baseX, rescaled[i].baseY)
                  IN  cards'[i].baseX = r[1] /\ cards'[i].baseY = r[2]]_vars

\* C27 (amended): after an accepted zoom the position of every card is the
\* one preventOverlap gives against the adjusted positions of the cards
\* before it in the card list and the rescaled positions of the cards
\* after it.
ZoomResolvesInListOrder ==
    [][scale' # scale =>
          LET rescaled == scaleCards(cards, RDiv(scale', scale))
          IN  \A i \in 1..Len(cards) :
                  LET seen == [j \in 1..Len(cards) |->
                                  IF j < i THEN cards'[j] ELSE rescaled[j]]
                      r == preventOverlap(seen, Range(selectedCards), gridSpacing,
                                          scale', rescaled[i],
                                          rescaled[i].baseX, rescaled[i].baseY)
                  IN  cards'[i].baseX = r[1] /\ cards'[i].baseY = r[2]]_vars

\* C27 witness: card 1, resized over card 2, was pushed down by the zoom to
\* 0.9 and card 2, resolved after it, found nothing in its way and stayed
\* at its rescaled position.
EarlierCardAdjustedLaterKept ==
    /\ scale = <<9, 10>>
    /\ Len(cards) = 2
    /\ cards[1].baseHeight = R(720)
    /\ cards[1].baseY = R(315)
    /\ cards[2].baseX = R(360)
    /\ cards[2].baseY = R(180)

\* ---- C28 ----------------------------------------------------------------
\* positions proposed for the card moving: one grid unit to either side of
\* the corner of another card
ProposedNear(cs, i, unit) ==
    {<<RAdd(cs[j].baseX, dx), RAdd(cs[j].baseY, dy)>> :
        j \in 1..Len(cs) \ {i}, dx \in {unit, RNeg(unit)}, dy \in {unit, RNeg(unit)}}

\* the four distances preventOverlap compares for the moving card put at
\* <<x, y>> and the card other
Displacements(moving, x, y, other, s) ==
    [dxLeft   |-> RAbs(RMul(RSub(RAdd(other.baseX, other.baseWidth), x), s)),
     dxRight  |-> RAbs(RMul(RSub(RAdd(x, moving.baseWidth), other.baseX), s)),
     dyTop    |-> RAbs(RMul(RSub(RAdd(other.baseY, other.baseHeight), y), s)),
     dyBottom |-> RAbs(RMul(RSub(RAdd(y, moving.baseHeight), other.baseY), s))]

LeastDisplacement(d) == RMin(RMin(d.dxLeft, d.dxRight), RMin(d.dyTop, d.dyBottom))

\* whether the correction for the card other is made along x
CorrectsX(moving, x, y, other, s) ==
    LET d == Displacements(moving, x, y, other, s)
    IN  LeastDisplacement(d) \in {d.dxLeft, d.dxRight}

\* the x computed from the card other, when the correction is along x
XClearOf(moving, x, y, other, g, s) ==
    LET d == Displacements(moving, x, y, other, s)
    IN  IF LeastDisplacement(d) = d.dxLeft
        THEN RAdd(RAdd(other.baseX, other.baseWidth), RMul(R(g), s))
        ELSE RSub(RDiv(RSub(RMul(other.baseX, s), moving.baseWidth), s), RMul(R(g), s))

\* the y computed from the card other, when the correction is along y
YClearOf(moving, x, y, other, g, s) ==
    LET d == Displacements(moving, x, y, other, s)
    IN  IF LeastDisplacement(d) = d.dyTop
        THEN RAdd(RAdd(other.baseY, other.baseHeight), RMul(R(g), s))
        ELSE RSub(RDiv(RSub(RMul(other.baseY, s), moving.baseHeight), s), RMul(R(g), s))

\* the largest member of a non-empty set of card-list indices
LastOf(S) == CHOOSE j \in S : \A k \in S : k <= j

\* the unselected cards that the card i, put at <<x, y>>, overlaps
ObstaclesAt(cs, sel, i, x, y) ==
    {j \in 1..Len(cs) \ {i} : cs[j].id \notin sel /\ OverlapsAt(cs[i], x, y, cs[j])}

\* C28: every obstacle is judged against the rectangle at the proposed
\* position, and on each axis the position returned is the grid snap of the
\* coordinate computed from the last obstacle in card-list order that
\* corrects that axis (of the proposed coordinate when none does).
ResolveKeepsLatestCorrection ==
    LET sel == Range(selectedCards)
        unit == RMul(R(gridSpacing), scale)
    IN  \A i \in 1..Len(cards) :
          \A p \in ProposedNear(cards, i, unit) :
            LET obstacles == ObstaclesAt(cards, sel, i, p[1], p[2])
                alongX == {j \in obstacles : CorrectsX(cards[i], p[1], p[2], cards[j], scale)}
                alongY == obstacles \ alongX
                r == preventOverlap(cards, sel, gridSpacing, scale, cards[i], p[1], p[2])
            IN  /\ r[1] = snapToGrid(IF alongX = {} THEN p[1]
                                     ELSE XClearOf(cards[i], p[1], p[2],
                                                   cards[LastOf(alongX)], gridSpacing, scale),
                                     gridSpacing, scale)
                /\ r[2] = snapToGrid(IF alongY = {} THEN p[2]
                                     ELSE YClearOf(cards[i], p[1], p[2],
                                                   cards[LastOf(alongY)], gridSpacing, scale),
                                     gridSpacing, scale)

\* C28 witness: some proposed position of some card overlaps two obstacles
\* that correct the same axis to different coordinates.
TwoObstaclesOnOneAxis ==
    LET sel == Range(selectedCards)
        unit == RMul(R(gridSpacing), scale)
    IN  \E i \in 1..Len(cards) :
          \E p \in ProposedNear(cards, i, unit) :
            \E j, k \in ObstaclesAt(cards, sel, i, p[1], p[2]) :
                /\ j < k
                /\ CorrectsX(cards[i], p[1], p[2], cards[j], scale)
                /\ CorrectsX(cards[i], p[1], p[2], cards[k], scale)
                /\ XClearOf(cards[i], p[1], p[2], cards[j], gridSpacing, scale)
                     # XClearOf(cards[i], p[1], p[2], cards[k], gridSpacing, scale)

\* ---- C29 ----------------------------------------------------------------
\* C29 (as claimed): whatever the obstacles, preventOverlap returns the grid
\* snap of the proposed x or the grid snap of the proposed y.
AtMostOneAxisCorrected ==
    LET sel == Range(selectedCards)
        unit == RMul(R(gridSpacing), scale)
    IN  \A i \in 1..Len(cards) :
          \A p \in ProposedNear(cards, i, unit) :
            LET r == preventOverlap(cards, sel, gridSpacing, scale, cards[i], p[1], p[2])
            IN  \/ r[1] = snapToGrid(p[1], gridSpacing, scale)
                \/ r[2] = snapToGrid(p[2], gridSpacing, scale)

\* C29 (amended): preventOverlap corrects one axis for each obstacle: the x
\* it returns differs from the grid snap of the proposed x only when some
\* obstacle corrects x, the y only when some obstacle corrects y, and with
\* at most one obstacle at most one of the two differs.
OneAxisCorrectedPerObstacle ==
    LET sel == Range(selectedCards)
        unit == RMul(R(gridSpacing), scale)
    IN  \A i \in 1..Len(cards) :
          \A p \in ProposedNear(cards, i, unit) :
            LET obstacles == ObstaclesAt(cards, sel, i, p[1], p[2])
                alongX == {j \in obstacles : CorrectsX(cards[i], p[1], p[2], cards[j], scale)}
                r == preventOverlap(cards, sel, gridSpacing, scale, cards[i], p[1], p[2])
                sx == snapToGrid(p[1], gridSpacing, scale)
                sy == snapToGrid(p[2], gridSpacing, scale)
            IN  /\ r[1] # sx => alongX # {}
                /\ r[2] # sy => obstacles \ alongX # {}
                /\ Cardinality(obstacles) <= 1 => (r[1] = sx \/ r[2] = sy)

\* C29 witness: some proposed position of some card overlaps exactly one
\* obstacle, and some overlaps one obstacle that corrects x and another that
\* corrects y.
OneObstacleAndBothAxes ==
    LET sel == Range(selectedCards)
        unit == RMul(R(gridSpacing), scale)
    IN  /\ \E i \in 1..Len(cards) :
              \E p \in ProposedNear(cards, i, unit) :
                  Cardinality(ObstaclesAt(cards, sel, i, p[1], p[2])) = 1
        /\ \E i \in 1..Len(cards) :
              \E p \in ProposedNear(cards, i, unit) :
                  \E j, k \in ObstaclesAt(cards, sel, i, p[1], p[2]) :
                      /\ CorrectsX(cards[i], p[1], p[2], cards[j], scale)
                      /\ ~CorrectsX(cards[i], p[1], p[2], cards[k], scale)

\* ---- C30 ----------------------------------------------------------------
\* the cards of cs that are neither selected nor the card numbered i
UnselectedOthers(cs, sel, i) ==
    SelectSeq(cs, LAMBDA c : c.id \notin sel /\ c.id # cs[i].id)

\* C30: the position preventOverlap returns for a card and a proposed
\* position is the one it returns when the selected cards and the card's own
\* entry are taken out of the card list: neither is ever an obstacle.
SelectedCardsAreNoObstacles ==
    LET sel == Range(selectedCards)
        unit == RMul(R(gridSpacing), scale)
    IN  \A i \in 1..Len(cards) :
          \A p \in ProposedNear(cards, i, unit) \cup {<<cards[i].baseX, cards[i].baseY>>} :
              preventOverlap(cards, sel, gridSpacing, scale, cards[i], p[1], p[2])
                = preventOverlap(UnselectedOthers(cards, sel, i), {}, gridSpacing, scale,
                                 cards[i], p[1], p[2])

\* C30 witness: a proposed position of some card overlaps a selected card
\* and an unselected one, and the position returned is clear of the
\* unselected one only.
OverlapsSelectedAndUnselected ==
    LET sel == Range(selectedCards)
        unit == RMul(R(gridSpacing), scale)
    IN  \E i \in 1..Len(cards) :
          \E p \in ProposedNear(cards, i, unit) :
            \E j, k \in 1..Len(cards) \ {i} :
                /\ cards[j].id \in sel
                /\ cards[k].id \notin sel
                /\ OverlapsAt(cards[i], p[1], p[2], cards[j])
                /\ OverlapsAt(cards[i], p[1], p[2], cards[k])
                /\ LET r == preventOverlap(cards, sel, gridSpacing, scale,
                                           cards[i], p[1], p[2])
                   IN  /\ OverlapsAt(cards[i], r[1], r[2], cards[j])
                       /\ ~OverlapsAt(cards[i], r[1], r[2], cards[k])

\* ---- C31 ----------------------------------------------------------------
\* the rendered box of the card and the rectangle rect overlap strictly
IntersectsRect(card, s, rect) ==
    /\ RLt(RMul(card.baseX, s), RAdd(rect.left, rect.width))
    /\ RLt(rect.left, RMul(RAdd(card.baseX, card.baseWidth), s))
    /\ RLt(RMul(card.baseY, s), RAdd(rect.top, rect.height))
    /\ RLt(rect.top, RMul(RAdd(card.baseY, card.baseHeight), s))

\* C31 (as claimed): after a move sample of a rectangle selection every card
\* that intersects the selection rectangle is selected, and a card outside
\* it is deselected, or keeps its membership when it is the connectingFrom
\* card or Ctrl/Shift is held.
RectSelectsEveryCardInside ==
    [][\A x \in PointerXs, y \in PointerYs, additive \in BOOLEAN :
          (isSelecting /\ onMouseMove(R(x), R(y), additive)) =>
              \A i \in 1..Len(cards) :
                  LET id == cards[i].id
                  IN  IF IntersectsRect(cards[i], scale, selectionRect')
                      THEN id \in Range(selectedCards')
                      ELSE IF id = connectingFrom \/ additive
                      THEN id \in Range(selectedCards') <=> id \in Range(selectedCards)
                      ELSE id \notin Range(selectedCards')]_vars

\* C31 (amended): as claimed, except that a card intersecting the rectangle
\* that is the connectingFrom card keeps its membership: it is not added.
RectSelectsInsideButPending ==
    [][\A x \in PointerXs, y \in PointerYs, additive \in BOOLEAN :
          (isSelecting /\ onMouseMove(R(x), R(y), additive)) =>
              \A i \in 1..Len(cards) :
                  LET id == cards[i].id
                      inside == IntersectsRect(cards[i], scale, selectionRect')
                  IN  IF inside /\ id # connectingFrom
                      THEN id \in Range(selectedCards')
                      ELSE IF id = connectingFrom \/ (~inside /\ additive)
                      THEN id \in Range(selectedCards') <=> id \in Range(selectedCards)
                      ELSE id \notin Range(selectedCards')]_vars

\* C31 witness: a rectangle selection is under way whose rectangle covers
\* the unselected connectingFrom card and leaves the other card, selected,
\* outside.
RectOverPendingCard ==
    /\ isSelecting
    /\ \E i, j \in 1..Len(cards) :
          /\ cards[i].id = connectingFrom
          /\ cards[i].id \notin Range(selectedCards)
          /\ IntersectsRect(cards[i], scale, selectionRect)
          /\ cards[j].id \in Range(selectedCards)
          /\ ~IntersectsRect(cards[j], scale, selectionRect)

\* ---- C32 ----------------------------------------------------------------
\* how many times id stands in the sequence sel
Occurrences(sel, id) == Cardinality({k \in 1..Len(sel) : sel[k] = id})

\* C32: no card stands twice in the selection; selectCard leaves the
\* selection as it is for the connectingFrom card, and for any other card
\* gives a selection that holds the card once and every other card as often
\* as before.
SelectNeverAddsPendingNorTwice ==
    /\ \A id \in CardIds(cards) : Occurrences(selectedCards, id) <= 1
    /\ \A id \in CardIds(cards) :
          LET after == selectCard(selectedCards, connectingFrom, id)
          IN  IF id = connectingFrom
              THEN after = selectedCards
              ELSE /\ Occurrences(after, id) = 1
                   /\ \A other \in CardIds(cards) \ {id} :
                         Occurrences(after, other) = Occurrences(selectedCards, other)

\* C32 witness: a paste selected its two new cards while an unselected
\* card was the pending connectingFrom card.
PastedSelectedPendingLeftOut ==
    /\ cardCount = 4
    /\ connectingFrom # Null
    /\ connectingFrom \notin Range(selectedCards)
    /\ Range(selectedCards) = {CardId(3), CardId(4)}

\* ---- C33 ----------------------------------------------------------------
\* C33: what clearSelection leaves holds no card but the connectingFrom
\* card: nothing when no connection is pending, and the connectingFrom card
\* exactly when it was selected.
ClearKeepsOnlySelectedPending ==
    LET after == clearSelection(selectedCards, connectingFrom)
    IN  /\ Range(after) \subseteq {connectingFrom}
        /\ connectingFrom = Null => after = <<>>
        /\ connectingFrom \in Range(after) <=> connectingFrom \in Range(selectedCards)
        /\ Len(after) <= 1

\* C33 witness: a paste cleared a selection that held the connectingFrom
\* card before it selected its two new cards: the connectingFrom card comes
\* first in the selection.
PendingCardSurvivedClear ==
    /\ cardCount = 4
    /\ connectingFrom # Null
    /\ selectedCards = <<connectingFrom, CardId(3), CardId(4)>>

\* ---- C34 ----------------------------------------------------------------
\* C34: isSelecting becomes true only by a press on the background, off
\* every card, without Alt, which starts no drag or resize; such a press
\* leaves of the selection at most the connectingFrom card, or all of it when
\* Ctrl/Shift is held; a press with Alt and a press on a card leave
\* isSelecting as it was.
RectSelectBeginsOnBackground ==
    [][/\ (~isSelecting /\ isSelecting') =>
             /\ \A i \in 1..Len(cards) : ~pointerOnCard(cards[i], scale, startX', startY')
             /\ \E additive \in BOOLEAN : startSelection(startX', startY', additive, FALSE)
             /\ gestures' = gestures
       /\ \A x \in PointerXs, y \in PointerYs :
             /\ startSelection(R(x), R(y), FALSE, FALSE) =>
                   isSelecting' /\ Range(selectedCards') \subseteq {connectingFrom}
             /\ startSelection(R(x), R(y), TRUE, FALSE) =>
                   isSelecting' /\ selectedCards' = selectedCards
             /\ \A additive \in BOOLEAN :
                   startSelection(R(x), R(y), additive, TRUE) => isSelecting' = isSelecting
       /\ \A i \in 1..Len(cards), zone \in PressZones,
             additive \in BOOLEAN, altKey \in BOOLEAN, onInput \in BOOLEAN :
             onCardMouseDown(i, zoneX(cards[i], scale, zone), zoneY(cards[i], scale, zone),
                             additive, altKey, onInput)
                => isSelecting' = isSelecting]_vars

\* C34 witness: a rectangle selection was begun with Ctrl/Shift held: it is
\* under way, nothing was dragged out yet, and two cards are still selected.
RectSelectBegunAdditive ==
    /\ isSelecting
    /\ selectionRect.width = R(0)
    /\ selectionRect.height = R(0)
    /\ Len(selectedCards) = 2
    /\ gestures = <<>>

\* ---- C35 ----------------------------------------------------------------
\* C35: a press on a card with Alt held, or on the card's text input,
\* registers no drag and no resize closure and leaves the selection and the
\* cards as they were, on the body and on a resize handle alike.
AltOrInputPressDoesNothing ==
    [][\A i \in 1..Len(cards), zone \in PressZones,
          additive \in BOOLEAN, altKey \in BOOLEAN, onInput \in BOOLEAN :
          (/\ altKey \/ onInput
           /\ onCardMouseDown(i, zoneX(cards[i], scale, zone), zoneY(cards[i], scale, zone),
                              additive, altKey, onInput))
             => /\ gestures' = gestures
                /\ selectedCards' = selectedCards
                /\ cards' = cards]_vars

\* C35 witness: an alt-click (whose press had Alt held) made a card the
\* pending connectingFrom card while another card stayed the only selected
\* one, and no drag or resize is registered.
AltPressedBesideSelectedCard ==
    /\ connectingFrom # Null
    /\ Len(selectedCards) = 1
    /\ selectedCards[1] # connectingFrom
    /\ gestures = <<>>

HandlersLiveOnlyForGesture ==
    [][/\ onMouseUp => gestures' = <<>>
       /\ (gestures = <<>>) => cards' = cards
       /\ \A x \in ReleaseXs, y \in ReleaseYs, additive \in BOOLEAN :
             (gestures = <<>> /\ onMouseMove(R(x), R(y), additive)) =>
                 /\ gestures' = <<>>
                 /\ \A i \in 1..Len(cards) :
                       /\ cards'[i].baseX = cards[i].baseX
                       /\ cards'[i].baseY = cards[i].baseY
                       /\ cards'[i].baseWidth = cards[i].baseWidth
                       /\ cards'[i].baseHeight = cards[i].baseHeight
       /\ (gestures = <<>> /\ gestures' # <<>>) =>
             \E i \in 1..Len(cards), zone \in ReleaseZones :
                 onCardMouseDown(i, zoneX(cards[i], scale, zone), zoneY(cards[i], scale, zone),
                                 FALSE, FALSE, FALSE)]_vars

\* C37 witness: a resize of the first card and a drag of the second were
\* both ended by a release: the first card is wider, the second has moved,
\* and no closure is registered.
GesturesEndedAfterResizeAndDrag ==
    /\ gestures = <<>>
    /\ Len(cards) = 2
    /\ cards[1].baseWidth # R(200)
    /\ cards[1].baseX = R(100)
    /\ cards[2].baseX # R(400)

\* ---- C38 ----------------------------------------------------------------
\* the pointer positions of the move samples looked at by C38 and C39
SampleXs == {200, 350}
SampleYs == {150}

\* the card of a registered resize closure has the opposite edge where it
\* was at the start of the gesture, and a pure edge resize has the other
\* axis as it was
OppositeEdgeFixed(cs, c) ==
    LET i == IndexOf(cs, c.card)
        d == c.direction
    IN  i # 0 =>
          /\ IF d \in {"left", "top-left", "bottom-left"}
             THEN RAdd(cs[i].baseX, cs[i].baseWidth) = RAdd(c.initialX, c.initialWidth)
             ELSE cs[i].baseX = c.initialX
          /\ IF d \in {"top", "top-left", "top-right"}
             THEN RAdd(cs[i].baseY, cs[i].baseHeight) = RAdd(c.initialY, c.initialHeight)
             ELSE cs[i].baseY = c.initialY
          /\ d \in {"left", "right"} => cs[i].baseHeight = c.initialHeight
          /\ d \in {"top", "bottom"} => cs[i].baseWidth = c.initialWidth

\* C38: after every pointer move, the card of every registered resize has
\* its opposite edge where it was when the resize began (x + width for the
\* left edge, y + height for the top edge, x or y itself otherwise), and a
\* pure edge resize has left the other axis as it was.
ResizeKeepsOppositeEdge ==
    [][(\E x \in SampleXs, y \in SampleYs, additive \in BOOLEAN :
            onMouseMove(R(x), R(y), additive))
          => \A k \in 1..Len(gestures) :
                gestures[k].kind = "resize" => OppositeEdgeFixed(cards', gestures[k])]_vars

\* ---- C39 ----------------------------------------------------------------
\* the geometry a resize closure captured at the start of its gesture
StartGeometry(c) ==
    [baseWidth |-> c.initialWidth, baseHeight |-> c.initialHeight,
     baseX |-> c.initialX, baseY |-> c.initialY]

\* the captured geometry is on the grid of g*s and has the minimum size
StartAlignedAndBigEnough(c, g, s) ==
    LET unit == RMul(R(g), s)
    IN  /\ IsMultiple(c.initialX, unit)
        /\ IsMultiple(c.initialY, unit)
        /\ IsMultiple(c.initialWidth, unit)
        /\ IsMultiple(c.initialHeight, unit)
        /\ RLe(R(100), c.initialWidth)
        /\ RLe(R(50), c.initialHeight)

\* the four geometry fields of a card
GeometryOf(card) ==
    [baseWidth |-> card.baseWidth, baseHeight |-> card.baseHeight,
     baseX |-> card.baseX, baseY |-> card.baseY]

\* C39 (as claimed): a move sample of the one registered resize gives the
\* card the geometry computed from what the closure captured and the
\* pointer position (so equal pointer positions give equal geometries), and
\* when a resize begins on a card that is grid-aligned and of at least the
\* minimum size, its sample at the starting pointer position gives the
\* starting geometry.
ResizeDoesNotDrift ==
    [][/\ \A x \in GeomXs, y \in GeomYs, additive \in BOOLEAN :
             (/\ Len(gestures) = 1
              /\ gestures[1].kind = "resize"
              /\ onMouseMove(R(x), R(y), additive))
                => GeometryOf(cards'[IndexOf(cards', gestures[1].card)])
                      = resizedGeometry(gestures[1], gridSpacing, scale, R(x), R(y))
       /\ (/\ gestures = <<>>
           /\ Len(gestures') = 1
           /\ gestures'[1].kind = "resize"
           /\ StartAlignedAndBigEnough(gestures'[1], gridSpacing, scale))
             => resizedGeometry(gestures'[1], gridSpacing, scale,
                                gestures'[1].startX, gestures'[1].startY)
                   = StartGeometry(gestures'[1])]_vars

\* ---- C40 ----------------------------------------------------------------
\* the from/to endpoint pairs of the connectors
EndpointsOf(cons) == {<<cons[k].from, cons[k].to>> : k \in 1..Len(cons)}

\* C40: a step that changes the set of connector endpoints is an alt-click
\* on a card (not on its input), a paste or a confirmed delete; a press on a
\* card or on the background, a pointer move (drag, resize, rectangle
\* select), a release, a zoom, a change of the grid spacing, an added card,
\* a copy, a click without Alt and an unconfirmed delete leave the
\* connectors as they were.
ConnectorsChangeOnlyByToggleDeletePaste ==
    [][/\ (EndpointsOf(connectors') # EndpointsOf(connectors)) =>
             \/ \E i \in 1..Len(cards) : onCardClick(cards[i].id, TRUE, FALSE)
             \/ deleteSelectedCards(TRUE)
             \/ pasteCards
       /\ (\/ gestures' # gestures
           \/ isSelecting' # isSelecting
           \/ selectionRect' # selectionRect
           \/ scale' # scale
           \/ gridSpacing' # gridSpacing
           \/ clipboard' # clipboard
           \/ Len(cards') = Len(cards) /\ cards' # cards) => connectors' = connectors
       /\ copyCards => connectors' = connectors
       /\ addNewCard => connectors' = connectors
       /\ deleteSelectedCards(FALSE) => connectors' = connectors
       /\ \A i \in 1..Len(cards), onInput \in BOOLEAN :
             /\ onCardClick(cards[i].id, FALSE, onInput) => connectors' = connectors
             /\ onCardClick(cards[i].id, TRUE, TRUE) => connectors' = connectors
       /\ \A x \in FrameXs, y \in FrameYs, additive \in BOOLEAN :
             onMouseMove(R(x), R(y), additive) => connectors' = connectors]_vars

\* C40 witness: the first card was connected, then dragged or resized, the
\* canvas was zoomed, a copy was made and a card added or pasted, and a
\* connector is still there.
ConnectorKeptThroughOperations ==
    /\ connectors # <<>>
    /\ scale # R(1)
    /\ clipboard # <<>>
    /\ cardCount >= 3
    /\ cards # <<>>
    /\ cards[1].id = CardId(1)
    /\ GeometryOf(cards[1]) # [baseWidth |-> RMul(R(200), scale),
                               baseHeight |-> RMul(R(100), scale),
                               baseX |-> RMul(R(100), scale),
                               baseY |-> RMul(R(100), scale)]
    /\ gestures = <<>>

=============================================================================
